---------------------------- MODULE Spec2Model ----------------------------
(***************************************************************************)
(* A model of the stock_idss pipeline (AdrielDeVera/mse436): the price     *)
(* fetchers, the technical indicator engine, the target labeler, the       *)
(* fundamental ratio extractor and merger, the predictor, the dashboards   *)
(* and the backtest engine, the comprehensive feature set, the CSV files   *)
(* the fetchers write, run_pipeline with its monthly retrain, and the      *)
(* session state of the enhanced dashboard, translated from the Python     *)
(* sources under src/stock_idss.                                           *)
(*                                                                         *)
(* Numbers.  A pandas/numpy cell is modelled by a record                   *)
(*     [k |-> kind, n |-> numerator, d |-> denominator, s |-> string]      *)
(* with kind "num" (the exact rational n/d, d > 0, in lowest terms),       *)
(* "nan", "pinf", "ninf" (the IEEE-754 specials numpy produces instead of  *)
(* raising), "none" (Python None) and "str" (a Python string).  Integers   *)
(* keep their Python type: "pyint" is a Python int, "int64" the numpy      *)
(* integer scalar of an integer DataFrame column.  Arithmetic is exact:    *)
(* rounding of binary floating point is not modelled, NaN and infinity     *)
(* propagation is.                                                         *)
(***************************************************************************)
EXTENDS Integers, Sequences, FiniteSets, TLC

\* ------------------------------------------------------------------ bounds
\* Longest prediction series handed to the backtest.
MaxRows == 3
\* Returns are the multiples k/RetUnit with |k| <= MaxRet, and NaN.
MaxRet == 1
RetUnit == 2
\* initial_cash ranges over 1..MaxCash.
MaxCash == 2
\* Run Analysis is clicked at most MaxRuns times in a session.
MaxRuns == 3
\* Longest table handed to the labelers.
MaxLabelRows == 2
\* Longest price series, and the largest forward_days.
MaxBars == 4
MaxForward == 2
\* Market capitalisations range over 0..MaxCapBn billion (1e9) dollars.
MaxCapBn == 11
\* A price download holds 0..MaxFetchRows bars.
MaxFetchRows == 2
\* Longest feature table handed to predict_returns.
MaxPredRows == 2
\* Indicator windows range over 1..MaxWindow.
MaxWindow == 3
\* Longest table handed to the 20-bar indicators.
MaxLongBars == 21
\* Free sector names have up to MaxNameLen characters.
MaxNameLen == 4
\* Retrain ranges lie in the first MaxMonths months of the year.
MaxMonths == 3

\* ------------------------------------------------------- program constants
\* np.sqrt(252): trading days per year (backtest.py, sharpe).
AnnualDays == 252
\* classify_market_cap: 10e9 and 2e9, in units of 1e9.
LargeCapBn == 10
MidCapBn == 2
\* The default indicator window (features.py) and the length of the
\* Bollinger bands (enhanced_features.py).
DefaultWindow == 14
\* add_target_return: the default forward_days.
DefaultForward == 126
BBLength == 20

\* Seconds per day (timestamps count seconds, unit='s').
DaySeconds == 86400

\* The threshold slider: -10.0 .. 10.0 percent in steps of 0.5, that is
\* k / 200 for |k| <= 20.
SliderSteps == 20
SliderStepsPerUnit == 200

\* sector[:3]: the length of a sector code
SectorCodeLen == 3

\* ------------------------------------------------------------ float cells
Abs(x) == IF x < 0 THEN -x ELSE x

RECURSIVE GCD(_, _)
GCD(a, b) == IF b = 0 THEN a ELSE GCD(b, a % b)

Cell(kind, num, den, str) == [k |-> kind, n |-> num, d |-> den, s |-> str]

\* The rational a/b (b # 0) in lowest terms with a positive denominator.
Num(a, b) ==
    LET g == GCD(Abs(a), Abs(b))
        sg == IF b < 0 THEN -1 ELSE 1
    IN  Cell("num", (sg * a) \div g, Abs(b) \div g, "")

NaN == Cell("nan", 0, 1, "")
PInf == Cell("pinf", 0, 1, "")
NInf == Cell("ninf", 0, 1, "")
None == Cell("none", 0, 1, "")
Str(str) == Cell("str", 0, 1, str)
Zero == Num(0, 1)
One == Num(1, 1)

\* A Python/numpy bool cell; it counts as 1 or 0 in a mean.
Bool(b) == Cell("bool", IF b THEN 1 ELSE 0, 1, "")
True == Bool(TRUE)
False == Bool(FALSE)

\* A Python int, and the numpy.int64 it becomes inside a DataFrame.
PyInt(a) == Cell("pyint", a, 1, "")
Int64(a) == Cell("int64", a, 1, "")

IsNum(x) == x.k \in {"num", "pyint", "int64"}
IsNaN(x) == x.k = "nan"
IsInf(x) == x.k \in {"pinf", "ninf"}
\* pandas isna(): NaN and None are missing, everything else is a value.
IsNA(x) == x.k \in {"nan", "none"}

\* -1, 0, 1 for a number or an infinity.
SignInt(x) ==
    CASE x.k = "pinf" -> 1
      [] x.k = "ninf" -> -1
      [] OTHER -> IF x.n > 0 THEN 1 ELSE IF x.n < 0 THEN -1 ELSE 0

InfOfSign(sg) == IF sg > 0 THEN PInf ELSE NInf

Neg(x) ==
    CASE x.k = "pinf" -> NInf
      [] x.k = "ninf" -> PInf
      [] IsNum(x) -> Num(-x.n, x.d)
      [] OTHER -> NaN

Add(x, y) ==
    IF IsNaN(x) \/ IsNaN(y) THEN NaN
    ELSE IF IsInf(x) /\ IsInf(y) THEN (IF x.k = y.k THEN x ELSE NaN)
    ELSE IF IsInf(x) THEN x
    ELSE IF IsInf(y) THEN y
    ELSE Num(x.n * y.d + y.n * x.d, x.d * y.d)

Sub(x, y) == Add(x, Neg(y))

Mul(x, y) ==
    IF IsNaN(x) \/ IsNaN(y) THEN NaN
    ELSE IF IsInf(x) \/ IsInf(y)
         THEN (IF SignInt(x) * SignInt(y) = 0 THEN NaN
               ELSE InfOfSign(SignInt(x) * SignInt(y)))
    ELSE Num(x.n * y.n, x.d * y.d)

\* numpy true division: x/0 is an infinity, 0/0 and inf/inf are NaN, no raise.
Div(x, y) ==
    IF IsNaN(x) \/ IsNaN(y) THEN NaN
    ELSE IF IsInf(x) /\ IsInf(y) THEN NaN
    ELSE IF IsInf(x) THEN InfOfSign(SignInt(x) * (IF SignInt(y) < 0 THEN -1 ELSE 1))
    ELSE IF IsInf(y) THEN Zero
    ELSE IF y.n = 0 THEN (IF x.n = 0 THEN NaN ELSE InfOfSign(SignInt(x)))
    ELSE Num(x.n * y.d, x.d * y.n)

\* IEEE comparisons: every comparison with NaN is false.
Lt(x, y) ==
    IF IsNaN(x) \/ IsNaN(y) THEN FALSE
    ELSE IF x.k = "pinf" \/ y.k = "ninf" THEN FALSE
    ELSE IF x.k = "ninf" \/ y.k = "pinf" THEN TRUE
    ELSE x.n * y.d < y.n * x.d

Gt(x, y) == Lt(y, x)
FEq(x, y) ==
    IF IsNum(x) /\ IsNum(y) THEN x.n * y.d = y.n * x.d
    ELSE ~IsNaN(x) /\ ~IsNaN(y) /\ x = y
Ge(x, y) == Gt(x, y) \/ FEq(x, y)

\* np.sign: -1, 0, 1, and NaN for NaN.
Sign(x) == IF IsNaN(x) THEN NaN ELSE Num(SignInt(x), 1)

\* ----------------------------------------------------------------- tables
\* A DataFrame: its column names in order, and its rows (column -> cell).
ColSet(df) == {df.cols[i] : i \in 1..Len(df.cols)}
HasCol(df, c) == c \in ColSet(df)
NRows(df) == Len(df.rows)
Col(df, c) == [i \in 1..NRows(df) |-> df.rows[i][c]]

\* df[c] = vals: overwrites the column in place, or appends it as the last one.
SetCol(df, c, vals) ==
    [cols |-> IF HasCol(df, c) THEN df.cols ELSE Append(df.cols, c),
     rows |-> [i \in 1..NRows(df) |->
                 [x \in ColSet(df) \cup {c} |->
                    IF x = c THEN vals[i] ELSE df.rows[i][x]]]]

\* Sequences over S of length 0..m.
SeqUpTo(S, m) == UNION {[1..k -> S] : k \in 0..m}


\* Series reductions, pandas style: missing values are skipped (skipna=True).
NotNaN(x) == ~IsNaN(x)
Defined(s) == SelectSeq(s, NotNaN)

RECURSIVE SumSeq(_)
SumSeq(s) == IF Len(s) = 0 THEN Zero ELSE Add(Head(s), SumSeq(Tail(s)))

\* Series.mean(): NaN for a series with no defined value.
Mean(s) ==
    LET xs == Defined(s)
    IN  IF Len(xs) = 0 THEN NaN ELSE Div(SumSeq(xs), Num(Len(xs), 1))

\* Series.std(ddof=0) squared: the mean squared deviation of the defined values.
VarPop(s) ==
    LET xs == Defined(s)
        m == Mean(s)
        sq == [i \in 1..Len(xs) |-> Mul(Sub(xs[i], m), Sub(xs[i], m))]
    IN  IF Len(xs) = 0 THEN NaN ELSE Div(SumSeq(sq), Num(Len(xs), 1))

\* Series.cumprod(): a missing value yields NaN in its own row and is skipped
\* by the running product of the rows after it.
RECURSIVE CumProdFrom(_, _, _)
CumProdFrom(s, i, acc) ==
    IF i > Len(s) THEN <<>>
    ELSE IF IsNaN(s[i]) THEN <<NaN>> \o CumProdFrom(s, i + 1, acc)
    ELSE <<Mul(acc, s[i])>> \o CumProdFrom(s, i + 1, Mul(acc, s[i]))

\* A cumprod that lets a missing value poison every later row (skipna=False).
RECURSIVE CumProdPropagating(_)
CumProdPropagating(s) ==
    IF Len(s) = 0 THEN <<>>
    ELSE LET front == CumProdPropagating(SubSeq(s, 1, Len(s) - 1))
             prev == IF Len(front) = 0 THEN One ELSE front[Len(front)]
         IN  Append(front, Mul(prev, s[Len(s)]))

CumProd(s) == CumProdFrom(s, 1, One)

\* mean of a bool column: the share of True rows, NaN for an empty column.
MeanBool(s) ==
    IF Len(s) = 0 THEN NaN
    ELSE Num(Cardinality({i \in 1..Len(s) : s[i] = True}), Len(s))

\* A real of the form sgn * sqrt(sq), or NaN or an infinity: the value of
\* mean / std * sqrt(scale) where std = sqrt(var).
Root(kind, sgn, sq) == [k |-> kind, sgn |-> sgn, sq |-> sq]
RootNaN == Root("nan", 0, Zero)

MeanOverStdTimesSqrt(mean, var, scale) ==
    IF IsNaN(mean) \/ IsNaN(var) \/ IsInf(mean) \/ IsInf(var) THEN RootNaN
    ELSE IF var.n = 0
         THEN (IF mean.n = 0 THEN RootNaN
               ELSE Root(IF mean.n > 0 THEN "pinf" ELSE "ninf", SignInt(mean), Zero))
    ELSE Root("root", SignInt(mean),
              Div(Mul(Mul(mean, mean), Num(scale, 1)), var))

\* ------------------------------------------------- evaluation/backtest.py
VARIABLES pred_csv, initial_cash, results

btVars == <<pred_csv, initial_cash, results>>

EmptyTable == [cols |-> <<>>, rows |-> <<>>]

\* A strategy that is invested on every row, whatever the label.
strategy_return_always(df) ==
    [i \in 1..NRows(df) |-> df.rows[i]["target_return"]]

\* df['strategy_return'] = np.where(df[label_col] == 1, df[actual_col], 0)
strategy_return(df) ==
    [i \in 1..NRows(df) |->
        IF FEq(df.rows[i]["predicted_label"], One)
        THEN df.rows[i]["target_return"] ELSE Zero]

\* df['cumulative_return'] = (1 + df['strategy_return']).cumprod() * initial_cash
cumulative_return(df, cash) ==
    LET sr == strategy_return(df)
        cp == CumProd([i \in 1..Len(sr) |-> Add(One, sr[i])])
    IN  [i \in 1..Len(sr) |-> Mul(cp[i], Num(cash, 1))]

\* A win column that compares sign(label) itself, without the 0.5 offset.
win_no_offset(df) ==
    [i \in 1..NRows(df) |->
        Bool(FEq(Sign(df.rows[i]["predicted_label"]),
                 Sign(df.rows[i]["target_return"])))]

\* df['win'] = np.sign(df[label_col] - 0.5) == np.sign(df[actual_col])
win(df) ==
    [i \in 1..NRows(df) |->
        Bool(FEq(Sign(Sub(df.rows[i]["predicted_label"], Num(1, 2))),
                 Sign(df.rows[i]["target_return"])))]

\* A sharpe without the std > 0 test.
sharpe_unguarded(df) ==
    MeanOverStdTimesSqrt(Mean(strategy_return(df)),
                         VarPop(strategy_return(df)), AnnualDays)

\* sharpe = mean / std(ddof=0) * sqrt(252) if std(ddof=0) > 0 else nan
\* (std > 0 exactly when its square is > 0; a NaN std fails the test).
sharpe(df) ==
    LET sr == strategy_return(df)
    IN  IF Gt(VarPop(sr), Zero)
        THEN MeanOverStdTimesSqrt(Mean(sr), VarPop(sr), AnnualDays)
        ELSE RootNaN

\* backtest_strategy(pred_csv, initial_cash): the returned dict, or the
\* exception that leaves the function. Lines 7-11 work on an empty frame;
\* .iloc[-1] of an empty column raises IndexError.
backtest_strategy(df, cash) ==
    LET sr == strategy_return(df)
        cr == cumulative_return(df, cash)
        w == win(df)
        out == SetCol(SetCol(SetCol(df, "strategy_return", sr),
                             "cumulative_return", cr), "win", w)
    IN  IF NRows(df) = 0
        THEN [status |-> "IndexError"]
        ELSE [status |-> "ok",
              total_return |-> Sub(Div(cr[Len(cr)], Num(cash, 1)), One),
              win_rate |-> MeanBool(w),
              return_curve |-> cr,
              sharpe |-> sharpe(df),
              df |-> out]

\* The prediction CSVs the backtest can be given: a header and 0..MaxRows rows
\* of an actual return (possibly missing) and a 0/1 label.
Returns == {NaN} \cup {Num(k, RetUnit) : k \in -MaxRet..MaxRet}
Labels == {Zero, One}
PredRows ==
    {[c \in {"target_return", "predicted_label"} |->
        IF c = "target_return" THEN r ELSE l] : r \in Returns, l \in Labels}
PredTables ==
    {[cols |-> <<"target_return", "predicted_label">>, rows |-> rs] :
        rs \in SeqUpTo(PredRows, MaxRows)}

BtInit ==
    /\ pred_csv = EmptyTable
    /\ initial_cash = 1
    /\ results = [status |-> "none"]

\* A run of backtest.py: one call of backtest_strategy on a CSV.
BacktestStrategy ==
    \E df \in PredTables, cash \in 1..MaxCash :
        /\ results.status = "none"
        /\ pred_csv' = df
        /\ initial_cash' = cash
        /\ results' = backtest_strategy(df, cash)

\* ------------------------------------------------ claims on the backtest
BtCalled == results.status # "none"
BtOk == results.status = "ok"
BtLabel(i) == pred_csv.rows[i]["predicted_label"]
BtActual(i) == pred_csv.rows[i]["target_return"]
BtRows == 1..NRows(pred_csv)

\* The strategy return the specification gives row i.
SpecStrategyReturn(i) == IF BtLabel(i) = One THEN BtActual(i) ELSE Zero

\* The product of (1 + strategy_return(i)) over all i <= t, as real/IEEE
\* arithmetic gives it: one undefined factor makes the product undefined.
RECURSIVE ProdAll(_)
ProdAll(t) ==
    IF t = 0 THEN One ELSE Mul(ProdAll(t - 1), Add(One, SpecStrategyReturn(t)))

\* The same product over the rows i <= t whose strategy return is defined.
RECURSIVE ProdDefined(_)
ProdDefined(t) ==
    IF t = 0 THEN One
    ELSE IF IsNaN(SpecStrategyReturn(t)) THEN ProdDefined(t - 1)
    ELSE Mul(ProdDefined(t - 1), Add(One, SpecStrategyReturn(t)))

Cash == Num(initial_cash, 1)

\* C1: a backtest on an empty prediction series returns normally, with
\* total_return, win_rate and sharpe all NaN (it does not raise).
C1_EmptyBacktestReturnsNaN ==
    (BtCalled /\ NRows(pred_csv) = 0) =>
        /\ results.status = "ok"
        /\ IsNaN(results.total_return)
        /\ IsNaN(results.win_rate)
        /\ results.sharpe = RootNaN

\* C5 as stated: on every non-empty series strategy_return(t) is the actual
\* return on label 1 and 0 otherwise, cumulative_return(t) is initial_cash
\* times the product of (1 + strategy_return(i)) over all i <= t, one value
\* per row in order, and total_return = cumulative_return(last)/initial_cash - 1.
C5_CumulativeIsFullProduct ==
    (BtCalled /\ NRows(pred_csv) > 0) =>
        /\ BtOk
        /\ Len(results.return_curve) = NRows(pred_csv)
        /\ \A t \in BtRows :
            /\ results.df.rows[t]["strategy_return"] = SpecStrategyReturn(t)
            /\ results.return_curve[t] = Mul(Cash, ProdAll(t))
            /\ results.df.rows[t]["cumulative_return"] = results.return_curve[t]
        /\ results.total_return =
             Sub(Div(results.return_curve[NRows(pred_csv)], Cash), One)

\* C5 amended: as C5, except that cumulative_return(t) is undefined in a row
\* whose own strategy return is undefined and otherwise is initial_cash times
\* the product of (1 + strategy_return(i)) over the rows i <= t whose strategy
\* return is defined (a missing return is skipped, not propagated).
C5_CumulativeSkipsMissing ==
    (BtCalled /\ NRows(pred_csv) > 0) =>
        /\ BtOk
        /\ Len(results.return_curve) = NRows(pred_csv)
        /\ \A t \in BtRows :
            /\ results.df.rows[t]["strategy_return"] = SpecStrategyReturn(t)
            /\ results.return_curve[t] =
                 (IF IsNaN(SpecStrategyReturn(t)) THEN NaN
                  ELSE Mul(Cash, ProdDefined(t)))
            /\ results.df.rows[t]["cumulative_return"] = results.return_curve[t]
        /\ results.total_return =
             Sub(Div(results.return_curve[NRows(pred_csv)], Cash), One)

\* A bought row with a missing actual return, followed by a bought row with a
\* non-zero return: the curve is undefined in the first and defined after it.
C5_Witness ==
    /\ BtOk
    /\ \E i, j \in BtRows :
        /\ i < j
        /\ BtLabel(i) = One /\ IsNaN(BtActual(i))
        /\ BtLabel(j) = One /\ IsNum(BtActual(j)) /\ BtActual(j) # Zero
        /\ IsNaN(results.return_curve[i])
        /\ IsNum(results.return_curve[j])
        /\ results.return_curve[j] # Cash

\* C6: on a (non-empty) series whose labels are all 0, total_return = 0 and
\* cumulative_return equals initial_cash in every row, whatever the actual
\* returns are, missing ones included.
C6_AllZeroLabelsFlat ==
    (BtCalled /\ NRows(pred_csv) > 0 /\ \A i \in BtRows : BtLabel(i) = Zero) =>
        /\ BtOk
        /\ results.total_return = Zero
        /\ \A t \in BtRows :
            /\ results.return_curve[t] = Cash
            /\ results.df.rows[t]["cumulative_return"] = Cash

\* Several rows, all labelled 0, with a missing and a non-zero actual return.
C6_Witness ==
    /\ BtOk
    /\ NRows(pred_csv) >= 2
    /\ \A i \in BtRows : BtLabel(i) = Zero
    /\ \E i \in BtRows : IsNaN(BtActual(i))
    /\ \E i \in BtRows : IsNum(BtActual(i)) /\ BtActual(i) # Zero
    /\ initial_cash > 1

\* The rows the specification counts as wins.
SpecWin(i) ==
    \/ BtLabel(i) = One /\ Gt(BtActual(i), Zero)
    \/ BtLabel(i) = Zero /\ Lt(BtActual(i), Zero)

\* C7: win(t) holds exactly when (label 1 and actual return > 0) or (label 0
\* and actual return < 0); a row with actual return 0 is never a win; win_rate
\* is the number of winning rows over the number of all rows.
C7_WinIsSignMatch ==
    BtOk =>
        /\ \A t \in BtRows :
            /\ results.df.rows[t]["win"] = Bool(SpecWin(t))
            /\ BtActual(t) = Zero => results.df.rows[t]["win"] = False
        /\ results.win_rate =
             Num(Cardinality({t \in BtRows : SpecWin(t)}), NRows(pred_csv))

\* A zero actual return under each label, beside a winning row.
C7_Witness ==
    /\ BtOk
    /\ \E i, j, l \in BtRows :
        /\ BtActual(i) = Zero /\ BtLabel(i) = Zero
        /\ BtActual(j) = Zero /\ BtLabel(j) = One
        /\ results.df.rows[l]["win"] = True
    /\ results.win_rate = Num(1, 3)

\* The defined strategy returns, their sum, their sum of squares and
\* n * sum(x^2) - sum(x)^2, which is n^2 times the population variance.
SpecDefinedReturns ==
    SelectSeq([t \in BtRows |-> SpecStrategyReturn(t)], NotNaN)
SpecSum == SumSeq(SpecDefinedReturns)
SpecSumSq ==
    SumSeq([i \in 1..Len(SpecDefinedReturns) |->
              Mul(SpecDefinedReturns[i], SpecDefinedReturns[i])])
SpecSpread ==
    Sub(Mul(Num(Len(SpecDefinedReturns), 1), SpecSumSq), Mul(SpecSum, SpecSum))

VARIABLES df_pred, label_in, label_call

lblVars == <<df_pred, label_in, label_call>>

\* df[c] >= threshold, then .astype(int): 1 or 0 per row, a missing value
\* compares false.
LabelColumn(df, c, threshold) ==
    [i \in 1..NRows(df) |->
        IF Ge(df.rows[i][c], threshold) THEN One ELSE Zero]

\* A labeler with a strict comparison.
apply_label_strict(df, threshold, pred_col, label_col) ==
    SetCol(df, label_col,
           [i \in 1..NRows(df) |->
               IF Gt(df.rows[i][pred_col], threshold) THEN One ELSE Zero])

\* A labeler that keeps a buy label the table already carries.
apply_label_sticky(df, threshold, pred_col, label_col) ==
    SetCol(df, label_col,
           [i \in 1..NRows(df) |->
               IF HasCol(df, label_col) /\ df.rows[i][label_col] = One
               THEN One
               ELSE LabelColumn(df, pred_col, threshold)[i]])

\* predictor.apply_label: df.copy(), then
\* df[label_col] = (df[pred_col] >= threshold).astype(int)
apply_label(df, threshold, pred_col, label_col) ==
    SetCol(df, label_col, LabelColumn(df, pred_col, threshold))

\* train_model.apply_classification_thresholds: the same on target_col.
apply_classification_thresholds(df, threshold, label_col, target_col) ==
    SetCol(df, label_col, LabelColumn(df, target_col, threshold))

\* The float columns of the tables the labelers are given, and the thresholds
\* (--threshold): a negative, the zero and a positive one.
LabelValues == {NaN, Num(-1, 2), Zero}
Thresholds == {Num(-1, 2), Zero, Num(1, 2)}
LabelRows ==
    {[c \in {"target_return", "predicted_return"} |->
        IF c = "target_return" THEN a ELSE b] :
        a \in LabelValues, b \in LabelValues}
LabelTables ==
    {[cols |-> <<"target_return", "predicted_return">>, rows |-> rs] :
        rs \in SeqUpTo(LabelRows, MaxLabelRows)}

NoCall == [op |-> "none", threshold |-> Zero]

LblInit ==
    /\ df_pred = EmptyTable
    /\ label_in = EmptyTable
    /\ label_call = NoCall

\* df = pd.read_csv(input_csv) / df_pred = predict_returns(model, input_csv):
\* the table a run starts from.
ReadFrame ==
    \E df \in LabelTables :
        /\ label_call.op = "none"
        /\ df_pred = EmptyTable
        /\ df_pred' = df
        /\ label_call' = [op |-> "read", threshold |-> Zero]
        /\ UNCHANGED label_in

\* df_pred = apply_label(df_pred, threshold=...)
ApplyLabel ==
    \E th \in Thresholds :
        /\ label_call.op # "none"
        /\ label_in' = df_pred
        /\ df_pred' = apply_label(df_pred, th, "predicted_return", "predicted_label")
        /\ label_call' = [op |-> "apply_label", threshold |-> th]

\* df = apply_classification_thresholds(df, threshold=...)
ApplyClassificationThresholds ==
    \E th \in Thresholds :
        /\ label_call.op # "none"
        /\ label_in' = df_pred
        /\ df_pred' = apply_classification_thresholds(df_pred, th, "label", "target_return")
        /\ label_call' = [op |-> "apply_classification_thresholds", threshold |-> th]


\* ------------------------------------------------------ src/features.py
VARIABLES price_df, forward_days, target_df

tgtVars == <<price_df, forward_days, target_df>>

\* Series.shift(periods): row i takes the value of row i - periods, the rows
\* that would read outside the series are NaN.
Shift(s, periods) ==
    [i \in 1..Len(s) |->
        IF i - periods >= 1 /\ i - periods <= Len(s) THEN s[i - periods] ELSE NaN]

\* A target that looks backward: shift(forward_days) for shift(-forward_days).
add_target_return_backward(df, fwd) ==
    LET close == Col(df, "Close")
        ahead == Shift(close, fwd)
    IN  SetCol(df, "target_return",
               [i \in 1..NRows(df) |-> Sub(Div(ahead[i], close[i]), One)])

\* add_target_return: df.copy(), then
\* df['target_return'] = df['Close'].shift(-forward_days) / df['Close'] - 1
add_target_return(df, fwd) ==
    LET close == Col(df, "Close")
        ahead == Shift(close, -fwd)
    IN  SetCol(df, "target_return",
               [i \in 1..NRows(df) |-> Sub(Div(ahead[i], close[i]), One)])

\* Close cells as load_stock_csv leaves them: a number, or NaN where
\* pd.to_numeric(errors='coerce') met an unparseable cell.
Closes == {NaN, Zero, One, Num(2, 1)}
PriceTables ==
    {[cols |-> <<"Date", "Close">>,
      rows |-> [i \in 1..Len(cs) |->
                  [c \in {"Date", "Close"} |->
                      IF c = "Date" THEN Num(i, 1) ELSE cs[i]]]] :
        cs \in SeqUpTo(Closes, MaxBars)}

TgtInit ==
    /\ price_df = EmptyTable
    /\ forward_days = 0
    /\ target_df = [status |-> "none"]

\* df = add_target_return(df, forward_days) on a loaded price table.
AddTargetReturn ==
    \E df \in PriceTables, fwd \in 0..MaxForward :
        /\ target_df.status = "none"
        /\ price_df' = df
        /\ forward_days' = fwd
        /\ target_df' = [status |-> "ok", df |-> add_target_return(df, fwd)]

\* ------------------------------------------ src/fundamental_fetcher.py
\* State: the files of the fundamentals directory and the last call made.
VARIABLES fund_files, fund_call

fundVars == <<fund_files, fund_call>>

\* Python dicts: a function from the keys present to their values.
DictGet(d, key, default) == IF key \in DOMAIN d THEN d[key] ELSE default

\* Python truth value of None, a float or a numpy scalar: None and 0 are
\* false, every other number and NaN are true.
Truthy(x) == ~(x.k = "none") /\ ~(IsNum(x) /\ x.n = 0)

\* A financial statement (a DataFrame of line items by reporting period, the
\* latest period first): items maps a line item to its values per period.
StmtEmpty(st) == st.ncols = 0 \/ DOMAIN st.items = {}
StmtLoc(st, item, col) == st.items[item][col]

\* A Python value stored in a DataFrame: an int becomes a numpy.int64.
ToFrameCell(x) == IF x.k = "pyint" THEN Int64(x.n) ELSE x

\* A one-row DataFrame built from an ordered list of <<column, value>> pairs.
FrameOfPairs(pairs) ==
    [cols |-> [i \in 1..Len(pairs) |-> pairs[i][1]],
     rows |-> <<[c \in {pairs[i][1] : i \in 1..Len(pairs)} |->
                   ToFrameCell(
                     pairs[CHOOSE i \in 1..Len(pairs) : pairs[i][1] = c][2])]>>]

NoFrame == [cols |-> <<>>, rows |-> <<>>]

\* DataFrame.to_csv followed by pd.read_csv: an empty cell (None, NaN) reads
\* back as NaN, numbers and non-empty strings read back as written (an
\* integer column prints without a decimal point and reads back as int64).
ReadCsv(df) ==
    [cols |-> df.cols,
     rows |-> [i \in 1..NRows(df) |->
                 [c \in ColSet(df) |->
                    IF IsNA(df.rows[i][c]) THEN NaN ELSE df.rows[i][c]]]]

\* fetch_fundamental_data: the dict of everything the source returned, or {}
\* when any access to the source raised; the non-empty statements are saved.
DataKeys ==
    {"income_stmt", "balance_sheet", "cash_flow", "info", "earnings",
     "quarterly_earnings", "financials", "quarterly_financials",
     "balance_sheet_quarterly"}
EmptyDict == [x \in {} |-> None]

fetch_fundamental_data(upstream) ==
    IF upstream.kind = "raises" THEN EmptyDict ELSE upstream.data

SavedStatements(fd) ==
    {key \in DOMAIN fd :
        /\ key # "info"
        /\ fd[key].kind = "frame"
        /\ ~StmtEmpty(fd[key])}

\* extract_key_ratios, lines 113-134: ratios from the latest balance sheet.
BalanceSheetRatios(fd) ==
    IF ~("balance_sheet" \in DOMAIN fd /\ fd["balance_sheet"].kind # "none")
    THEN <<>>
    ELSE LET bs == fd["balance_sheet"]
             has(item) == item \in DOMAIN bs.items
             cur == IF has("Total Current Assets") /\ has("Total Current Liabilities")
                       /\ Truthy(StmtLoc(bs, "Total Current Liabilities", 1))
                       /\ ~FEq(StmtLoc(bs, "Total Current Liabilities", 1), Zero)
                    THEN << <<"calculated_current_ratio",
                              Div(StmtLoc(bs, "Total Current Assets", 1),
                                  StmtLoc(bs, "Total Current Liabilities", 1))>> >>
                    ELSE <<>>
             dte == IF has("Total Debt") /\ has("Total Stockholder Equity")
                       /\ Truthy(StmtLoc(bs, "Total Stockholder Equity", 1))
                       /\ ~FEq(StmtLoc(bs, "Total Stockholder Equity", 1), Zero)
                    THEN << <<"calculated_debt_to_equity",
                              Div(StmtLoc(bs, "Total Debt", 1),
                                  StmtLoc(bs, "Total Stockholder Equity", 1))>> >>
                    ELSE <<>>
         IN  IF StmtEmpty(bs) \/ bs.ncols = 0 THEN <<>> ELSE cur \o dte

\* extract_key_ratios, lines 136-155: year-over-year growth from the two
\* latest periods of the income statement.
Growth(income, item, name) ==
    IF /\ item \in DOMAIN income.items
       /\ Truthy(StmtLoc(income, item, 2))
       /\ ~FEq(StmtLoc(income, item, 2), Zero)
    THEN << <<name, Div(Sub(StmtLoc(income, item, 1), StmtLoc(income, item, 2)),
                        StmtLoc(income, item, 2))>> >>
    ELSE <<>>

IncomeRatios(fd) ==
    IF ~("income_stmt" \in DOMAIN fd /\ fd["income_stmt"].kind # "none")
    THEN <<>>
    ELSE LET income == fd["income_stmt"]
         IN  IF StmtEmpty(income) \/ income.ncols < 2 THEN <<>>
             ELSE Growth(income, "Total Revenue", "revenue_growth_yoy")
                  \o Growth(income, "Net Income", "earnings_growth_yoy")

\* extract_key_ratios: one row of ratios plus ticker and date, or an empty
\* DataFrame when the extraction raised (info is not a mapping).
extract_key_ratios(ticker, fd) ==
    LET info == DictGet(fd, "info", [kind |-> "dict", d |-> EmptyDict])
        get(key) == DictGet(info.d, key, None)
    IN  IF info.kind # "dict" THEN NoFrame
        ELSE FrameOfPairs(
               << <<"pe_ratio", get("trailingPE")>>,
                  <<"pb_ratio", get("priceToBook")>>,
                  <<"debt_to_equity", get("debtToEquity")>>,
                  <<"current_ratio", get("currentRatio")>>,
                  <<"roe", get("returnOnEquity")>>,
                  <<"roa", get("returnOnAssets")>>,
                  <<"market_cap", get("marketCap")>>,
                  <<"enterprise_value", get("enterpriseValue")>>,
                  <<"sector", get("sector")>>,
                  <<"industry", get("industry")>> >>
               \o BalanceSheetRatios(fd) \o IncomeRatios(fd)
               \o << <<"ticker", Str(ticker)>>, <<"date", Str("today")>> >>)

\* A classifier whose tiers exclude their lower bound.
classify_market_cap_strict(market_cap) ==
    IF market_cap.k = "none" THEN "Unknown"
    ELSE IF Gt(market_cap, Num(LargeCapBn, 1)) THEN "Large"
    ELSE IF Gt(market_cap, Num(MidCapBn, 1)) THEN "Mid"
    ELSE "Small"

\* classify_market_cap (market_cap in units of 1e9)
classify_market_cap(market_cap) ==
    IF market_cap.k = "none" THEN "Unknown"
    ELSE IF Ge(market_cap, Num(LargeCapBn, 1)) THEN "Large"
    ELSE IF Ge(market_cap, Num(MidCapBn, 1)) THEN "Mid"
    ELSE "Small"

\* sector_mappings.get(sector, sector)
SectorMapped(name) ==
    CASE name = "Financial Services" -> "Financial"
      [] name = "Consumer Cyclical" -> "Consumer Discretionary"
      [] name = "Consumer Defensive" -> "Consumer Staples"
      [] name = "Basic Materials" -> "Materials"
      [] OTHER -> name

\* Strings are sequences of characters: s[:k] is the first k of them (all of
\* s when it is shorter), str.upper() maps every letter to its capital.
Slice(s, k) == IF Len(s) <= k THEN s ELSE SubSeq(s, 1, k)

LowerCase == "abcdefghijklmnopqrstuvwxyz"
UpperCase == "ABCDEFGHIJKLMNOPQRSTUVWXYZ"
CharAt(s, i) == SubSeq(s, i, i)
UpperChar(c) ==
    IF \E i \in 1..Len(LowerCase) : CharAt(LowerCase, i) = c
    THEN CharAt(UpperCase, CHOOSE i \in 1..Len(LowerCase) : CharAt(LowerCase, i) = c)
    ELSE c

RECURSIVE Upper(_)
Upper(s) ==
    IF Len(s) = 0 THEN ""
    ELSE UpperChar(CharAt(s, 1)) \o Upper(SubSeq(s, 2, Len(s)))

\* sector[:3] without .upper()
First3(name) == Slice(name, SectorCodeLen)

\* sector[:3].upper()
Upper3(name) == Upper(Slice(name, SectorCodeLen))

\* get_sector_classification: a sector that is None or '' is falsy.
get_sector_classification(sector, industry) ==
    [sector |-> IF sector.k = "str" THEN Str(SectorMapped(sector.s)) ELSE sector,
     industry |-> industry,
     sector_code |-> IF sector.k = "str" /\ sector.s # ""
                     THEN Str(Upper3(sector.s)) ELSE Str("UNK")]

\* `sector[:3].upper() if sector else 'UNK'` slices only a truthy sector, and
\* slicing a value that is not a string raises TypeError.
SectorCodeStatus(sector) ==
    IF sector.k = "none" \/ (sector.k = "str" /\ sector.s = "") THEN "ok"
    ELSE IF sector.k = "str" THEN "ok"
    ELSE "TypeError"

\* The sectors and industries a caller passes: None (the source has none),
\* the sector names of the mapping, and any short name.
SectorNames ==
    {"Technology", "Healthcare", "Financial Services", "Consumer Cyclical",
     "Consumer Defensive", "Communication Services", "Industrials", "Energy",
     "Basic Materials", "Real Estate", "Utilities"}
Letters == {"a", "T", " "}
RECURSIVE ShortNames(_)
ShortNames(k) ==
    IF k = 0 THEN {""}
    ELSE ShortNames(k - 1) \cup {n \o c : n \in ShortNames(k - 1), c \in Letters}
SectorArgs == {None} \cup {Str(n) : n \in SectorNames \cup ShortNames(MaxNameLen)}
IndustryArgs == {None, Str(""), Str("Software"), Str("Banks")}

\* State: the last call of get_sector_classification.
VARIABLE sector_call

secVars == <<sector_call>>

SecInit == sector_call = [op |-> "none"]

\* sector_info = get_sector_classification(sector, industry)
GetSectorClassification ==
    /\ sector_call.op = "none"
    /\ \E sector \in SectorArgs, industry \in IndustryArgs :
         sector_call' =
            [op |-> "get_sector_classification", sector |-> sector,
             industry |-> industry, status |-> SectorCodeStatus(sector),
             ret |-> get_sector_classification(sector, industry)]

\* os.path.join(save_dir, f"{ticker}_ratios.csv"); "" is the empty path.
RatiosPath(ticker) == <<ticker, "_ratios.csv">>
EmptyPath == <<>>

\* fetch_and_save_fundamentals: the files after the call and the value
\* returned (the path of the ratios file, or "").
fetch_and_save_fundamentals(ticker, upstream, files) ==
    LET fd == fetch_fundamental_data(upstream)
        ratios_df == extract_key_ratios(ticker, fd)
        market_cap == ratios_df.rows[1]["market_cap"]
        info == get_sector_classification(ratios_df.rows[1]["sector"],
                                          ratios_df.rows[1]["industry"])
        full == SetCol(SetCol(SetCol(ratios_df,
                    "market_cap_category",
                    <<Str(classify_market_cap(market_cap))>>),
                    "sector_classified", <<info.sector>>),
                    "sector_code", <<info.sector_code>>)
        saved == files.statements \cup SavedStatements(fd)
    IN  IF NRows(ratios_df) > 0
        THEN [ret |-> RatiosPath(ticker),
              files |-> [ratios |-> [exists |-> TRUE, frame |-> full],
                         statements |-> saved]]
        ELSE [ret |-> EmptyPath,
              files |-> [ratios |-> files.ratios, statements |-> saved]]

\* load_fundamental_ratios: the frame returned and the files after the call.
load_fundamental_ratios(ticker, upstream, files) ==
    IF files.ratios.exists
    THEN [frame |-> ReadCsv(files.ratios.frame), files |-> files]
    ELSE LET after == fetch_and_save_fundamentals(ticker, upstream, files).files
         IN  [frame |-> IF after.ratios.exists
                        THEN ReadCsv(after.ratios.frame) ELSE NoFrame,
              files |-> after]

\* What the source can answer for a ticker.
EmptyStmt == [kind |-> "frame", ncols |-> 0, items |-> EmptyDict]
NoneData == [kind |-> "none", ncols |-> 0, items |-> EmptyDict]
IncomeStmt ==
    [kind |-> "frame", ncols |-> 2,
     items |-> [x \in {"Total Revenue", "Net Income"} |->
                  IF x = "Total Revenue" THEN <<Num(3, 1), Num(2, 1)>>
                  ELSE <<One, Zero>>]]
BalanceSheet ==
    [kind |-> "frame", ncols |-> 1,
     items |-> [x \in {"Total Current Assets", "Total Current Liabilities",
                       "Total Debt", "Total Stockholder Equity"} |->
                  CASE x = "Total Current Assets" -> <<Num(4, 1)>>
                    [] x = "Total Current Liabilities" -> <<Num(2, 1)>>
                    [] x = "Total Debt" -> <<One>>
                    [] OTHER -> <<Zero>>]]

\* info maps: marketCap (a JSON integer) and sector each present or not
\* (mc = -1 and sec = "" stand for a key the source left out).
InfoMaps ==
    {[x \in (IF mc = -1 THEN {} ELSE {"marketCap"})
            \cup (IF sec = "" THEN {} ELSE {"sector"}) |->
        IF x = "marketCap" THEN PyInt(mc) ELSE Str(sec)] :
        mc \in -1..MaxCapBn,
        sec \in {"", "Technology", "Basic Materials"}}

SourceData(info, income, balance) ==
    [x \in DataKeys |->
        CASE x = "info" -> info
          [] x = "income_stmt" -> income
          [] x = "balance_sheet" -> balance
          [] x \in {"earnings", "quarterly_earnings"} -> NoneData
          [] OTHER -> EmptyStmt]

\* The source raises (unreachable), hands back no info mapping, or answers.
Upstreams ==
    {[kind |-> "raises", data |-> EmptyDict]}
    \cup {[kind |-> "data", data |-> SourceData(NoneData, EmptyStmt, EmptyStmt)]}
    \cup {[kind |-> "data",
           data |-> SourceData([kind |-> "dict", d |-> im], st[1], st[2])] :
            im \in InfoMaps,
            st \in {<<EmptyStmt, EmptyStmt>>, <<IncomeStmt, BalanceSheet>>}}

NotContacted == [kind |-> "not contacted", data |-> EmptyDict]

FundInit ==
    /\ fund_files = [ratios |-> [exists |-> FALSE, frame |-> NoFrame],
                     statements |-> {}]
    /\ fund_call = [op |-> "none", upstream |-> NotContacted, existed |-> FALSE,
                    ret |-> EmptyPath, frame |-> NoFrame]

\* ratios_file = fetch_and_save_fundamentals(ticker, save_dir)
FetchAndSaveFundamentals ==
    \E u \in Upstreams :
        LET r == fetch_and_save_fundamentals("AAPL", u, fund_files)
        IN  /\ fund_files' = r.files
            /\ fund_call' = [op |-> "fetch_and_save_fundamentals", upstream |-> u,
                             existed |-> fund_files.ratios.exists,
                             ret |-> r.ret, frame |-> NoFrame]

\* ratios_df = load_fundamental_ratios(ticker, fundamentals_dir)
LoadFundamentalRatios ==
    \E u \in Upstreams :
        LET r == load_fundamental_ratios("AAPL", u, fund_files)
        IN  /\ fund_files' = r.files
            /\ fund_call' = [op |-> "load_fundamental_ratios",
                             upstream |-> IF fund_files.ratios.exists
                                          THEN NotContacted ELSE u,
                             existed |-> fund_files.ratios.exists,
                             ret |-> EmptyPath, frame |-> r.frame]

\* extract_key_ratios on its own: State: the data handed in, the frame returned.
VARIABLES fundamental_data, key_ratios

ratVars == <<fundamental_data, key_ratios>>

\* Cells of a statement as yfinance delivers them: a number, or NaN where the
\* filing has no value for the period.
StmtValues == {NaN, Num(-1, 1), Zero, Num(2, 1)}

\* Income statements: any of the two line items, one or two periods.
IncomeStatements ==
    {[kind |-> "frame", ncols |-> nc,
      items |-> [x \in names |->
                   IF x = "Total Revenue" THEN SubSeq(rev, 1, nc)
                   ELSE SubSeq(net, 1, nc)]] :
        names \in SUBSET {"Total Revenue", "Net Income"},
        nc \in 1..2,
        rev \in [1..2 -> StmtValues],
        net \in [1..2 -> StmtValues]}

RatInit ==
    /\ fundamental_data = EmptyDict
    /\ key_ratios = [status |-> "none"]

\* ratios_df = extract_key_ratios(ticker, fundamental_data)
ExtractKeyRatios ==
    \E income \in IncomeStatements :
        LET fd == SourceData([kind |-> "dict", d |-> EmptyDict], income, EmptyStmt)
        IN  /\ key_ratios.status = "none"
            /\ fundamental_data' = fd
            /\ key_ratios' = [status |-> "ok", df |-> extract_key_ratios("AAPL", fd)]

\* ---------------------------------------------------- src/data_fetcher.py
\* State: the files written so far and the last fetch call.
VARIABLES raw_files, fetch_call

fetchVars == <<raw_files, fetch_call>>

\* A file path: the directory (0 is the shared default directory, k > 0 the
\* k-th directory made by tempfile.mkdtemp) and the parts of the file name.
Path(dir, kind, ticker, dates, uid) ==
    [dir |-> dir, kind |-> kind, ticker |-> ticker, dates |-> dates, uid |-> uid]
NoDates == [start |-> "", end |-> ""]
NoPath == Path(0, "none", "", NoDates, 0)

\* os.path.join(save_dir, f"{ticker}_{start}_{end}.csv")
RawPath(save_dir, ticker, dates) == Path(save_dir, "raw", ticker, dates, 0)
\* os.path.join(save_dir, f"{ticker}_{start}_{end}_finnhub.csv")
FinnhubPath(save_dir, ticker, dates) == Path(save_dir, "finnhub", ticker, dates, 0)

\* df.to_csv(file_path): the file is created or replaced.
FileWrite(files, path, content) ==
    {f \in files : f.path # path} \cup {[path |-> path, content |-> content]}
FileExists(files, path) == \E f \in files : f.path = path

\* raise ValueError(f"No data fetched for {ticker} from {start} to {end}...")
NoDataError(ticker, dates, files) ==
    [status |-> "ValueError", ticker |-> ticker, dates |-> dates,
     ret |-> NoPath, files |-> files]
Saved(ticker, dates, path, files) ==
    [status |-> "ok", ticker |-> ticker, dates |-> dates,
     ret |-> path, files |-> files]

\* A download that is saved whatever it holds.
fetch_and_save_yfinance_unchecked(ticker, dates, save_dir, df, files) ==
    Saved(ticker, dates, RawPath(save_dir, ticker, dates),
          FileWrite(files, RawPath(save_dir, ticker, dates), df.rows))

\* fetch_and_save_yfinance; df is what yf.download returned.
fetch_and_save_yfinance(ticker, dates, save_dir, df, files) ==
    IF df.isNone \/ df.rows = 0
    THEN NoDataError(ticker, dates, files)
    ELSE Saved(ticker, dates, RawPath(save_dir, ticker, dates),
               FileWrite(files, RawPath(save_dir, ticker, dates), df.rows))

\* fetch_and_save_finnhub; data is the JSON body of the candle request.
fetch_and_save_finnhub(ticker, dates, save_dir, data, files) ==
    IF data.s # "ok"
    THEN NoDataError(ticker, dates, files)
    ELSE Saved(ticker, dates, FinnhubPath(save_dir, ticker, dates),
               FileWrite(files, FinnhubPath(save_dir, ticker, dates), data.rows))

Tickers == {"AAPL", "MSFT"}
DateRanges == {[start |-> "2023-01-01", end |-> "2024-01-01"]}
\* yf.download: None, or a frame of 0..MaxFetchRows bars.
Downloads ==
    {[isNone |-> TRUE, rows |-> 0]}
    \cup {[isNone |-> FALSE, rows |-> n] : n \in 0..MaxFetchRows}
\* The candle endpoint: s = 'ok' with bars, s = 'no_data', or a body
\* without s (an error message).
Candles ==
    {[s |-> "ok", rows |-> n] : n \in 1..MaxFetchRows}
    \cup {[s |-> "no_data", rows |-> 0], [s |-> "", rows |-> 0]}

NoFetch ==
    [op |-> "none", nothing |-> FALSE, before |-> {},
     result |-> Saved("", NoDates, NoPath, {})]

FetchInit ==
    /\ raw_files = {}
    /\ fetch_call = NoFetch

\* path = fetch_and_save_yfinance(args.ticker, args.start, args.end, args.save_dir)
FetchAndSaveYfinance ==
    \E ticker \in Tickers, dates \in DateRanges, df \in Downloads :
        LET r == fetch_and_save_yfinance(ticker, dates, 0, df, raw_files)
        IN  /\ raw_files' = r.files
            /\ fetch_call' = [op |-> "fetch_and_save_yfinance",
                              nothing |-> df.isNone \/ df.rows = 0,
                              before |-> raw_files, result |-> r]

\* fetch_and_save_finnhub(ticker, start, end, save_dir)
FetchAndSaveFinnhub ==
    \E ticker \in Tickers, dates \in DateRanges, data \in Candles :
        LET r == fetch_and_save_finnhub(ticker, dates, 0, data, raw_files)
        IN  /\ raw_files' = r.files
            /\ fetch_call' = [op |-> "fetch_and_save_finnhub",
                              nothing |-> data.rows = 0,
                              before |-> raw_files, result |-> r]

\* ------------------------------ app/dashboard.py, app/enhanced_dashboard.py
\* Concurrent dashboard sessions, each running one analysis.  State: each
\* session's position and paths, the files of the machine, the log of file
\* accesses, and the names tempfile.mkdtemp and uuid.uuid4 have handed out.
VARIABLES session, dash_files, accesses, fresh

dashVars == <<session, dash_files, accesses, fresh>>

Sessions == {1, 2}
Apps == {"dashboard", "enhanced_dashboard"}

\* tempfile.gettempdir(): the one temporary directory of the machine.
gettempdir == 0

\* os.path.join(tempfile.gettempdir(), f"processed_{uuid.uuid4().hex}.csv")
ProcessedPathUuid(uid) == Path(gettempdir, "processed", "", NoDates, uid)
\* os.path.join(temp_dir, f"{ticker}_processed.csv")
ProcessedPathIn(temp_dir, ticker) == Path(temp_dir, "processed", ticker, NoDates, 0)
\* os.path.join(temp_dir, 'fundamentals', f"{ticker}_ratios.csv")
RatiosPathIn(temp_dir, ticker) == Path(temp_dir, "ratios", ticker, NoDates, 0)

FileContent(files, path) == (CHOOSE f \in files : f.path = path).content
Access(s, path, mode) == [session |-> s, path |-> path, mode |-> mode]

IdleSession ==
    [pc |-> "idle", app |-> "dashboard", ticker |-> "", temp_dir |-> gettempdir,
     raw_csv |-> NoPath, processed_csv |-> NoPath]

DashInit ==
    /\ session = [s \in Sessions |-> IdleSession]
    /\ dash_files = {}
    /\ accesses = {}
    /\ fresh = [dirs |-> 0, uuids |-> 0]

\* The button is pressed: run_prediction starts in the shared temporary
\* directory, run_enhanced_analysis makes a directory with mkdtemp.
StartRun(s) ==
    \E app \in Apps, ticker \in Tickers :
        /\ session[s].pc = "idle"
        /\ session' = [session EXCEPT ![s] =
              [@ EXCEPT !.pc = "fetch", !.app = app, !.ticker = ticker,
                        !.temp_dir = IF app = "dashboard" THEN gettempdir
                                     ELSE fresh.dirs + 1]]
        /\ fresh' = IF app = "dashboard" THEN fresh
                    ELSE [fresh EXCEPT !.dirs = @ + 1]
        /\ UNCHANGED <<dash_files, accesses>>

\* raw_csv = data_fetcher.fetch_and_save_yfinance(ticker, start, end, save_dir)
FetchPrices(s) ==
    \E dates \in DateRanges, df \in Downloads :
        LET me == session[s]
            r == fetch_and_save_yfinance(me.ticker, dates, me.temp_dir, df, dash_files)
        IN  /\ me.pc = "fetch"
            /\ dash_files' = r.files
            /\ IF r.status = "ok"
               THEN /\ session' = [session EXCEPT ![s] =
                          [@ EXCEPT !.pc = IF me.app = "dashboard" THEN "features"
                                           ELSE "fundamentals",
                                    !.raw_csv = r.ret]]
                    /\ accesses' = accesses \cup {Access(s, r.ret, "write")}
               ELSE /\ session' = [session EXCEPT ![s] = [@ EXCEPT !.pc = "done"]]
                    /\ UNCHANGED accesses
            /\ UNCHANGED fresh

\* fundamental_fetcher.fetch_and_save_fundamentals(ticker, fundamental_dir),
\* when the fundamentals box is ticked and a snapshot is written.
FetchFundamentals(s) ==
    \E written \in BOOLEAN :
        LET me == session[s]
            path == RatiosPathIn(me.temp_dir, me.ticker)
        IN  /\ me.pc = "fundamentals"
            /\ session' = [session EXCEPT ![s] = [@ EXCEPT !.pc = "features"]]
            /\ dash_files' = IF written THEN FileWrite(dash_files, path, 1)
                             ELSE dash_files
            /\ accesses' = IF written
                           THEN accesses \cup {Access(s, path, "write")}
                           ELSE accesses
            /\ UNCHANGED fresh

\* process_and_save_with_indicators(raw_csv, processed_csv, ...): the raw
\* file is read as it is now, the processed file is written.
CreateFeatures(s) ==
    LET me == session[s]
        out == IF me.app = "dashboard" THEN ProcessedPathUuid(fresh.uuids + 1)
               ELSE ProcessedPathIn(me.temp_dir, me.ticker)
    IN  /\ me.pc = "features"
        /\ session' = [session EXCEPT ![s] =
              [@ EXCEPT !.pc = "predict", !.processed_csv = out]]
        /\ dash_files' = FileWrite(dash_files, out, FileContent(dash_files, me.raw_csv))
        /\ accesses' = accesses \cup {Access(s, me.raw_csv, "read"),
                                      Access(s, out, "write")}
        /\ fresh' = IF me.app = "dashboard" THEN [fresh EXCEPT !.uuids = @ + 1]
                    ELSE fresh

\* df_pred = predictor.predict_returns(model_data, processed_csv)
Predict(s) ==
    /\ session[s].pc = "predict"
    /\ session' = [session EXCEPT ![s] = [@ EXCEPT !.pc = "done"]]
    /\ accesses' = accesses \cup {Access(s, session[s].processed_csv, "read")}
    /\ UNCHANGED <<dash_files, fresh>>

\* ------------------------------------------- src/enhanced_features.py
\* State: the snapshot loaded for the ticker, the technical table and the
\* table merge_fundamental_with_technical returned.
VARIABLES ratios_df, technical_df, combined_df

mrgVars == <<ratios_df, technical_df, combined_df>>

\* A Python dict with its insertion order: the keys in order and their values.
EmptyODict == [keys |-> <<>>, vals |-> EmptyDict]
ODictSet(d, key, value) ==
    [keys |-> IF key \in DOMAIN d.vals THEN d.keys ELSE Append(d.keys, key),
     vals |-> [x \in DOMAIN d.vals \cup {key} |->
                 IF x = key THEN value ELSE d.vals[x]]]
RECURSIVE ODictOf(_)
ODictOf(pairs) ==
    IF Len(pairs) = 0 THEN EmptyODict
    ELSE ODictSet(ODictOf(SubSeq(pairs, 1, Len(pairs) - 1)),
                  pairs[Len(pairs)][1], pairs[Len(pairs)][2])

\* DataFrame.empty: no rows or no columns.
FrameEmpty(df) == NRows(df) = 0 \/ Len(df.cols) = 0

\* row.get(name, default) on the first row of a frame.
RowGet(df, name, default) ==
    IF HasCol(df, name) THEN df.rows[1][name] ELSE default

\* create_fundamental_features
create_fundamental_features(ratios) ==
    LET get(name, default) == RowGet(ratios, name, default)
    IN  IF FrameEmpty(ratios) THEN EmptyODict
        ELSE ODictOf(
               << <<"pe_ratio", get("pe_ratio", NaN)>>,
                  <<"pb_ratio", get("pb_ratio", NaN)>>,
                  <<"debt_to_equity", get("debt_to_equity", NaN)>>,
                  <<"current_ratio", get("current_ratio", NaN)>>,
                  <<"roe", get("roe", NaN)>>,
                  <<"roa", get("roa", NaN)>>,
                  <<"revenue_growth_yoy", get("revenue_growth_yoy", NaN)>>,
                  <<"earnings_growth_yoy", get("earnings_growth_yoy", NaN)>>,
                  <<"market_cap", get("market_cap", NaN)>>,
                  <<"enterprise_value", get("enterprise_value", NaN)>>,
                  <<"market_cap_category", get("market_cap_category", Str("Unknown"))>>,
                  <<"sector_classified", get("sector_classified", Str("Unknown"))>>,
                  <<"sector_code", get("sector_code", Str("UNK"))>> >>)

\* market_cap_mapping.get(value, 0)
market_cap_mapping(value) ==
    PyInt(CASE value = Str("Large") -> 3
            [] value = Str("Mid") -> 2
            [] value = Str("Small") -> 1
            [] OTHER -> 0)

\* sector_mapping.get(value, 0)
sector_mapping(value) ==
    PyInt(CASE value = Str("TEC") -> 1
            [] value = Str("HEA") -> 2
            [] value = Str("FIN") -> 3
            [] value = Str("CON") -> 4
            [] value = Str("STA") -> 5
            [] value = Str("COM") -> 6
            [] value = Str("IND") -> 7
            [] value = Str("ENE") -> 8
            [] value = Str("MAT") -> 9
            [] value = Str("REA") -> 10
            [] value = Str("UTI") -> 11
            [] OTHER -> 0)

\* encode_categorical_features: a copy of the features with the two codes.
encode_categorical_features(features) ==
    LET withCap == IF "market_cap_category" \in DOMAIN features.vals
                   THEN ODictSet(features, "market_cap_category_encoded",
                                 market_cap_mapping(features.vals["market_cap_category"]))
                   ELSE features
    IN  IF "sector_code" \in DOMAIN withCap.vals
        THEN ODictSet(withCap, "sector_code_encoded",
                      sector_mapping(withCap.vals["sector_code"]))
        ELSE withCap

\* isinstance(value, (int, float)): Python int and float and numpy.float64
\* (a subclass of float); numpy.int64 is neither.
IsIntOrFloat(x) == x.k \in {"num", "nan", "pinf", "ninf", "pyint"}

\* df[name] = value: the scalar in every row.
Broadcast(df, name, value) ==
    SetCol(df, name, [i \in 1..NRows(df) |-> ToFrameCell(value)])

\* merge_fundamental_with_technical, lines 202-207: features from position i on.
RECURSIVE AddFeatures(_, _, _)
AddFeatures(df, features, i) ==
    IF i > Len(features.keys) THEN df
    ELSE LET name == features.keys[i]
             value == features.vals[name]
         IN  AddFeatures(
               IF (IsIntOrFloat(value) /\ ~IsNA(value)) \/ value.k = "str"
               THEN Broadcast(df, name, value) ELSE df,
               features, i + 1)

\* merge_fundamental_with_technical
merge_fundamental_with_technical(technical, fundamental_features, ticker) ==
    Broadcast(AddFeatures(technical,
                          encode_categorical_features(fundamental_features), 1),
              "ticker", Str(ticker))

\* A fundamentals directory without files.
EmptyDir == [ratios |-> [exists |-> FALSE, frame |-> NoFrame], statements |-> {}]

\* Technical tables: every price series with all closes 1.
MergeTables ==
    {df \in PriceTables : \A i \in 1..NRows(df) : df.rows[i]["Close"] = One}

MrgInit ==
    /\ ratios_df = NoFrame
    /\ technical_df = EmptyTable
    /\ combined_df = [status |-> "none"]

\* create_comprehensive_feature_set, lines 235-239: load the snapshot of a
\* ticker not fetched before, derive the features and merge them.
MergeFundamentalWithTechnical ==
    \E u \in Upstreams, df \in MergeTables :
        LET ratios == load_fundamental_ratios("AAPL", u, EmptyDir).frame
        IN  /\ combined_df.status = "none"
            /\ ratios_df' = ratios
            /\ technical_df' = df
            /\ combined_df' =
                 [status |-> "ok",
                  df |-> merge_fundamental_with_technical(
                           df, create_fundamental_features(ratios), "AAPL")]

\* ------------------------------------- src/predictor.py: model and predict
\* State: the pickled artifact, the record load_model returned, the feature
\* table read from input_csv and the outcome of predict_returns.
VARIABLES model_file, model_data, input_csv, prediction

predVars == <<model_file, model_data, input_csv, prediction>>

\* An XGBRegressor as train_model fits it: the columns it was fitted on (a
\* booster remembers its feature names) and, standing for its trees, a bias
\* added to the sum of the features.
Regressor(fitted, bias) == [type |-> "XGBRegressor", fitted |-> fitted, bias |-> bias]

\* model.predict(X): xgboost validates the feature names of a DataFrame and
\* raises ValueError (feature_names mismatch) unless they are the fitted ones.
RECURSIVE RowSum(_, _, _)
RowSum(row, names, i) ==
    IF i > Len(names) THEN Zero ELSE Add(row[names[i]], RowSum(row, names, i + 1))
ModelPredict(model, X) ==
    IF X.cols # model.fitted
    THEN [status |-> "ValueError", preds |-> <<>>]
    ELSE [status |-> "ok",
          preds |-> [i \in 1..NRows(X) |->
                       Add(model.bias, RowSum(X.rows[i], X.cols, 1))]]

\* load_model on an old-format artifact that gives it a two-feature list.
load_model_short(pickled) ==
    IF pickled.type = "dict" THEN pickled
    ELSE [type |-> "dict", model |-> pickled, features |-> <<"SMA", "RSI">>,
          feature_importance |-> EmptyDict]

\* load_model; pickled is the object pickle.load returned.
load_model(pickled) ==
    IF pickled.type = "dict" THEN pickled
    ELSE [type |-> "dict", model |-> pickled, features |-> <<"SMA", "RSI", "EMA">>,
          feature_importance |-> EmptyDict]

\* df[available_features]
Select(df, names) ==
    [cols |-> names,
     rows |-> [i \in 1..NRows(df) |-> [c \in {names[j] : j \in 1..Len(names)} |->
                                          df.rows[i][c]]]]
\* X.fillna(0)
FillNa0(df) ==
    [cols |-> df.cols,
     rows |-> [i \in 1..NRows(df) |-> [c \in ColSet(df) |->
                  IF IsNA(df.rows[i][c]) THEN Zero ELSE df.rows[i][c]]]]

\* predict_returns with features=None; df is pd.read_csv(input_csv).
predict_returns(loaded, df) ==
    LET model == loaded.model
        features == loaded.features
        available_features == SelectSeq(features, LAMBDA f : HasCol(df, f))
        missing_features == SelectSeq(features, LAMBDA f : ~HasCol(df, f))
        X == FillNa0(Select(df, available_features))
        out == ModelPredict(model, X)
    IN  IF Len(available_features) = 0
        THEN [status |-> "ValueError",
              message |-> "No features available for prediction"]
        ELSE IF out.status # "ok"
        THEN [status |-> "ValueError", message |-> "feature_names mismatch"]
        ELSE [status |-> "ok",
              df |-> Broadcast(
                       Broadcast(SetCol(df, "predicted_return", out.preds),
                                 "features_used", PyInt(Len(available_features))),
                       "features_missing", PyInt(Len(missing_features)))]

\* Feature lists train_xgboost_regressor fits a model on.
FittedLists ==
    {<<"SMA", "RSI", "EMA">>, <<"SMA", "RSI", "EMA", "pe_ratio">>, <<"SMA", "RSI">>}
\* Pickled artifacts: a bare regressor (old format) or the dict train_model
\* saves (new format), whose features are the fitted columns.
Artifacts ==
    {Regressor(fl, Zero) : fl \in FittedLists}
    \cup {[type |-> "dict", model |-> Regressor(fl, Zero), features |-> fl,
           feature_importance |-> [f \in {fl[i] : i \in 1..Len(fl)} |-> One]] :
            fl \in FittedLists}

\* Feature tables: any of the columns, 1..MaxPredRows rows of 1 or NaN.
FeatureNames == <<"SMA", "RSI", "EMA", "pe_ratio">>
FeatureTables ==
    {[cols |-> SelectSeq(FeatureNames, LAMBDA f : f \in present),
      rows |-> [i \in 1..n |-> [c \in present |->
                   IF <<i, c>> \in holes THEN NaN ELSE One]]] :
        present \in SUBSET {"SMA", "RSI", "EMA", "pe_ratio"},
        n \in 1..MaxPredRows,
        holes \in SUBSET ((1..1) \X {"SMA"})}

NotLoaded == [type |-> "none"]

PredInit ==
    /\ model_file = NotLoaded
    /\ model_data = NotLoaded
    /\ input_csv = EmptyTable
    /\ prediction = [status |-> "none"]

\* model = load_model(args.model_path)
LoadModel ==
    \E pickled \in Artifacts :
        /\ model_data.type = "none"
        /\ model_file' = pickled
        /\ model_data' = load_model(pickled)
        /\ UNCHANGED <<input_csv, prediction>>

\* df_pred = predict_returns(model, args.input_csv)
PredictReturns ==
    \E df \in FeatureTables :
        /\ model_data.type = "dict"
        /\ prediction.status = "none"
        /\ input_csv' = df
        /\ prediction' = predict_returns(model_data, df)
        /\ UNCHANGED <<model_file, model_data>>

\* -------------------- src/features.py, src/enhanced_features.py: indicators
\* pandas_ta (imported as ta) is taken as installed, TA-Lib as absent; its
\* indicators are modelled by what release 0.3.14b computes with pandas.

\* What a pandas_ta indicator returns: a series, or None when verify_series
\* found the close series shorter than the window.
NoSeries == [none |-> TRUE, s |-> <<>>]
Series(s) == [none |-> FALSE, s |-> s]

\* df[name] = result: a series fills the column, None is broadcast to it.
SetSeries(df, name, result) ==
    SetCol(df, name,
           [i \in 1..NRows(df) |-> IF result.none THEN None ELSE result.s[i]])

\* The window of the w rows ending at row i.
Window(s, i, w) == SubSeq(s, i - w + 1, i)
AllDefined(s) == \A i \in 1..Len(s) : ~IsNA(s[i])

\* The sum of rows lo..hi, taken by halves.
RECURSIVE SumRows(_, _, _)
SumRows(s, lo, hi) ==
    IF hi < lo THEN Zero
    ELSE IF lo = hi THEN s[lo]
    ELSE LET mid == (lo + hi) \div 2
         IN  Add(SumRows(s, lo, mid), SumRows(s, mid + 1, hi))

\* Series.rolling(w, min_periods=w).mean(): NaN until the window is full, and
\* wherever the window holds a missing value.
RollingMean(s, w) ==
    [i \in 1..Len(s) |->
        IF i >= w /\ AllDefined(Window(s, i, w))
        THEN Div(SumRows(s, i - w + 1, i), Num(w, 1)) ELSE NaN]

\* Series.rolling(w).var(ddof): the squared deviations over w - ddof.
RollingVar(s, w, ddof) ==
    [i \in 1..Len(s) |->
        IF i >= w /\ w > ddof /\ AllDefined(Window(s, i, w))
        THEN LET xs == Window(s, i, w)
                 m == Div(SumRows(xs, 1, w), Num(w, 1))
                 sq == [j \in 1..w |-> Mul(Sub(xs[j], m), Sub(xs[j], m))]
             IN  Div(SumRows(sq, 1, w), Num(w - ddof, 1))
        ELSE NaN]

\* The real a + b * sqrt(v) for rationals a, b and v >= 0: the rational it
\* equals when the root is rational, the closed form otherwise.
IsSquare(n) == \E r \in 0..n : r * r = n
IntRoot(n) == CHOOSE r \in 0..n : r * r = n
Surd(a, b, v) ==
    IF IsNaN(a) \/ IsNaN(b) \/ IsNaN(v) THEN NaN
    ELSE IF b.n = 0 \/ v.n = 0 THEN a
    ELSE IF IsSquare(v.n) /\ IsSquare(v.d)
         THEN Add(a, Mul(b, Num(IntRoot(v.n), IntRoot(v.d))))
    ELSE [k |-> "surd", a |-> a, b |-> b, v |-> v]

\* ta.sma(close, length): close.rolling(length, min_periods=length).mean()
sma(close, length) ==
    IF Len(close) < length THEN NoSeries
    ELSE Series(RollingMean(close, length))

\* ta.ema(close, length): the series is seeded at row length with the mean of
\* the first length closes (the rows before it are NaN), then
\* close.ewm(span=length, adjust=False).mean().
RECURSIVE EmaAt(_, _, _)
EmaAt(close, length, i) ==
    IF i < length THEN NaN
    ELSE IF i = length THEN Mean(SubSeq(close, 1, length))
    ELSE LET before == EmaAt(close, length, i - 1)
         IN  IF IsNaN(before) THEN NaN
             ELSE Add(Mul(Num(2, length + 1), close[i]),
                      Mul(Num(length - 1, length + 1), before))

ema(close, length) ==
    IF Len(close) < length THEN NoSeries
    ELSE Series([i \in 1..Len(close) |-> EmaAt(close, length, i)])

\* Series.diff(): NaN in the first row.
Diff(s) == [i \in 1..Len(s) |-> IF i = 1 THEN NaN ELSE Sub(s[i], s[i - 1])]

\* q^k, by halves.
RECURSIVE Pow(_, _)
Pow(q, k) ==
    IF k = 0 THEN One
    ELSE IF k = 1 THEN q
    ELSE Mul(Pow(q, k \div 2), Pow(q, k - (k \div 2)))

\* The sum over rows lo..hi of decay^(hi - j) * x[j], by halves; a half that
\* sums to zero adds nothing.
RECURSIVE EwmBlock(_, _, _, _)
EwmBlock(x, decay, lo, hi) ==
    IF hi < lo THEN Zero
    ELSE IF lo = hi THEN x[lo]
    ELSE LET mid == (lo + hi) \div 2
             left == EwmBlock(x, decay, lo, mid)
             right == EwmBlock(x, decay, mid + 1, hi)
         IN  IF FEq(left, Zero) THEN right
             ELSE Add(Mul(Pow(decay, hi - mid), left), right)

\* The weighted sum behind x.ewm(alpha=1 - decay).mean() with adjust=True, for
\* a series whose only missing value is its first row: the sum over rows 2..i
\* of decay^(i - j) * x[j].
EwmSum(x, decay, i) == EwmBlock(x, decay, 2, i)

\* ta.rsi(close, length), lines of pandas_ta/momentum/rsi.py:
\*   negative = close.diff(1); positive = negative.copy()
\*   positive[positive < 0] = 0; negative[negative > 0] = 0
\*   positive_avg = rma(positive, length); negative_avg = rma(negative, length)
\*   rsi = 100 * positive_avg / (positive_avg + negative_avg.abs())
\* where rma(x, length) = x.ewm(alpha=1/length, min_periods=length).mean() is
\* NaN until length differences were seen.  Both averages divide their
\* weighted sum by the same positive sum of weights, which cancels in the
\* quotient; two zero averages give 0/0.
rsi(close, length) ==
    IF Len(close) < length THEN NoSeries
    ELSE LET d == Diff(close)
             positive == [i \in 1..Len(d) |-> IF Lt(d[i], Zero) THEN Zero ELSE d[i]]
             negative == [i \in 1..Len(d) |-> IF Gt(d[i], Zero) THEN Zero ELSE d[i]]
             decay == Sub(One, Num(1, length))
             absolute(x) == IF Lt(x, Zero) THEN Neg(x) ELSE x
         IN  Series([i \in 1..Len(close) |->
                       IF i - 1 < length THEN NaN
                       ELSE Div(Mul(Num(100, 1), EwmSum(positive, decay, i)),
                                Add(EwmSum(positive, decay, i),
                                    absolute(EwmSum(negative, decay, i))))])

\* ta.bbands(close, length) with std=2, ddof=0 and an SMA basis: None for a
\* short series, otherwise the mid band and the variance of each window.
bbands(close, length) ==
    IF Len(close) < length THEN [none |-> TRUE, mid |-> <<>>, var |-> <<>>]
    ELSE [none |-> FALSE, mid |-> RollingMean(close, length),
          var |-> RollingVar(close, length, 0)]

\* features.add_indicators: df.copy(), then the three columns.
add_indicators(df, sma_window, rsi_window, ema_window) ==
    LET close == Col(df, "Close")
        withSma == SetSeries(df, "SMA", sma(close, sma_window))
        withRsi == SetSeries(withSma, "RSI", rsi(close, rsi_window))
    IN  SetSeries(withRsi, "EMA", ema(close, ema_window))

\* df[name] = column for each pair of a list, in order.
RECURSIVE SetCols(_, _)
SetCols(df, pairs) ==
    IF Len(pairs) = 0 THEN df
    ELSE SetCol(SetCols(df, SubSeq(pairs, 1, Len(pairs) - 1)),
                pairs[Len(pairs)][1], pairs[Len(pairs)][2])

\* Series / Series on columns that may be object columns of None: pandas
\* computes the defined rows and leaves NaN in the others.
MaskedDiv(x, y) == IF IsNA(x) \/ IsNA(y) THEN NaN ELSE Div(x, y)

\* Series.pct_change(): close / previous close - 1, NaN in the first row.
PctChange(s) ==
    [i \in 1..Len(s) |-> Sub(MaskedDiv(s[i], Shift(s, 1)[i]), One)]

\* The return over the k bars that follow, close.shift(-k) / close - 1.
MomentumAhead(close, k) ==
    [i \in 1..Len(close) |-> Sub(MaskedDiv(Shift(close, 0 - k)[i], close[i]), One)]

\* close / close.shift(k) - 1
Momentum(close, k) ==
    [i \in 1..Len(close) |-> Sub(MaskedDiv(close[i], Shift(close, k)[i]), One)]

\* Series.rolling(window=w).std(): the root of the sample variance.
RollingStd(s, w) ==
    LET v == RollingVar(s, w, 1)
    IN  [i \in 1..Len(s) |-> Surd(Zero, One, v[i])]

\* enhanced_features.add_advanced_technical_features: df.copy(), the rolling
\* and ratio columns, then the Bollinger bands.  bb is None for a series
\* shorter than the band length and bb['BBU_20_2.0'] then raises TypeError,
\* which `except ImportError` does not catch.  With upper = mid + 2 sd and
\* lower = mid - 2 sd, bb_position is 1/2 + (close - mid) / (4 sd), and 0/0
\* where sd = 0.
add_advanced_technical_features(df) ==
    LET n == NRows(df)
        close == Col(df, "Close")
        volume == Col(df, "Volume")
        daily == PctChange(close)
        colsOf == << <<"daily_return", daily>>,
                     <<"volatility_20d", RollingStd(daily, 20)>>,
                     <<"volatility_60d", RollingStd(daily, 60)>>,
                     <<"momentum_5d", Momentum(close, 5)>>,
                     <<"momentum_20d", Momentum(close, 20)>>,
                     <<"momentum_60d", Momentum(close, 60)>>,
                     <<"volume_sma_20", RollingMean(volume, 20)>>,
                     <<"volume_ratio",
                       [i \in 1..n |-> MaskedDiv(volume[i], RollingMean(volume, 20)[i])]>>,
                     <<"price_vs_sma_20",
                       [i \in 1..n |-> Sub(MaskedDiv(close[i], df.rows[i]["SMA"]), One)]>>,
                     <<"price_vs_ema_20",
                       [i \in 1..n |-> Sub(MaskedDiv(close[i], df.rows[i]["EMA"]), One)]>> >>
        bb == bbands(close, BBLength)
        two == Num(2, 1)
        position(i) ==
            IF IsNaN(bb.var[i]) THEN NaN
            ELSE IF bb.var[i].n = 0 THEN Div(Sub(close[i], bb.mid[i]), Zero)
            ELSE Surd(Num(1, 2),
                      Div(Sub(close[i], bb.mid[i]), Mul(Num(4, 1), bb.var[i])),
                      bb.var[i])
        bands == << <<"bb_upper", [i \in 1..n |-> Surd(bb.mid[i], two, bb.var[i])]>>,
                    <<"bb_middle", [i \in 1..n |-> bb.mid[i]]>>,
                    <<"bb_lower", [i \in 1..n |-> Surd(bb.mid[i], Neg(two), bb.var[i])]>>,
                    <<"bb_position", [i \in 1..n |-> position(i)]>> >>
    IN  IF bb.none THEN [status |-> "TypeError", df |-> EmptyTable]
        ELSE [status |-> "ok", df |-> SetCols(SetCols(df, colsOf), bands)]

\* pd.to_numeric(errors='coerce'): a cell that does not parse becomes NaN.
ToNumeric(x) == IF x.k \in {"str", "none"} THEN NaN ELSE x

\* features.load_stock_csv on a file with a Close column in its first header:
\* every column but Date is coerced to numbers.
load_stock_csv(file) ==
    [cols |-> file.cols,
     rows |-> [i \in 1..NRows(file) |->
                 [c \in ColSet(file) |->
                     IF c = "Date" THEN file.rows[i][c]
                     ELSE ToNumeric(file.rows[i][c])]]]

\* DataFrame.dropna(subset=names): the rows with a value in every named column.
RECURSIVE KeepRows(_, _)
KeepRows(rows, names) ==
    IF Len(rows) = 0 THEN <<>>
    ELSE LET rest == KeepRows(Tail(rows), names)
         IN  IF \E c \in names : IsNA(Head(rows)[c]) THEN rest
             ELSE <<Head(rows)>> \o rest

\* A dropna over every column.
dropna_all(df, names) == [cols |-> df.cols, rows |-> KeepRows(df.rows, ColSet(df))]

dropna(df, names) == [cols |-> df.cols, rows |-> KeepRows(df.rows, names)]

\* features.process_and_save_with_indicators.  os.makedirs(dirname) raises
\* FileNotFoundError for an output path without a directory part.
process_and_save_with_indicators(input, out_dir, sma_w, rsi_w, ema_w, fwd, drop_na) ==
    LET loaded == load_stock_csv(input)
        featured == add_target_return(
                      add_indicators(loaded, sma_w, rsi_w, ema_w), fwd)
        kept == IF drop_na
                THEN dropna(featured, {"SMA", "RSI", "EMA", "target_return"})
                ELSE featured
    IN  IF out_dir = "" THEN [status |-> "FileNotFoundError", df |-> EmptyTable]
        ELSE [status |-> "ok", df |-> kept]

\* Price tables with a Volume column.
Bars(closes, volumes) ==
    [cols |-> <<"Date", "Close", "Volume">>,
     rows |-> [i \in 1..Len(closes) |->
                 [c \in {"Date", "Close", "Volume"} |->
                     IF c = "Date" THEN Num(i, 1)
                     ELSE IF c = "Close" THEN closes[i] ELSE volumes[i]]]]

Ones(n) == [i \in 1..n |-> One]

\* Short tables: every series of parsed closes, every volume 1.
BarCloses == {One, Num(2, 1), Num(3, 1)}
IndicatorTables ==
    {Bars(cs, Ones(Len(cs))) : cs \in SeqUpTo(BarCloses, MaxBars)}

\* Tables long enough for the 20-bar windows: a flat run, then a free tail.
LongTables ==
    {Bars(Ones(BBLength - 1) \o tail, Ones(BBLength - 1 + Len(tail))) :
        tail \in UNION {[1..k -> {One, Num(2, 1)}] :
                          k \in 1..(MaxLongBars - BBLength + 1)}}

\* Price files: closes that parse, and at most one volume cell that does not.
PriceFiles ==
    UNION {{Bars(cs, [i \in 1..k |-> IF i = bad THEN Str("n/a") ELSE One]) :
               cs \in [1..k -> {One, Num(2, 1)}], bad \in 0..k} : k \in 0..MaxBars}

\* The objects alive during a stage call: heap[id] is the content of object
\* id.  A stage body `df = df.copy(); df[...] = ...; return df` writes to a
\* new object; without the copy it would write to its argument.
AssignInPlace(h, arg, result) ==
    [heap |-> [h EXCEPT ![arg] = result], ret |-> arg]

CopyThenAssign(h, arg, result) ==
    [heap |-> Append(h, result), ret |-> Len(h) + 1]

\* State: the object store and the last stage call (its arguments, their
\* content before the call, the object returned).
VARIABLES heap, stage_call

stgVars == <<heap, stage_call>>

NoStage == [op |-> "none", status |-> "none", args |-> <<>>, before |-> <<>>,
            ret |-> 0, params |-> <<>>]

Called(op, before, params, out) ==
    [op |-> op, status |-> "ok", args |-> [i \in 1..Len(before) |-> i],
     before |-> before, ret |-> out.ret, params |-> params]

Raised(op, before, params, error) ==
    [op |-> op, status |-> error, args |-> [i \in 1..Len(before) |-> i],
     before |-> before, ret |-> 0, params |-> params]

StgInit ==
    /\ heap = <<>>
    /\ stage_call = NoStage

\* df = add_indicators(df, sma_window, rsi_window, ema_window)
AddIndicators ==
    /\ stage_call.op = "none"
    /\ \E df \in IndicatorTables, sw \in 1..MaxWindow, rw \in 1..MaxWindow,
           ew \in 1..MaxWindow :
            LET out == CopyThenAssign(<<df>>, 1, add_indicators(df, sw, rw, ew))
            IN  /\ heap' = out.heap
                /\ stage_call' = Called("add_indicators", <<df>>, <<sw, rw, ew>>, out)

\* df = add_target_return(df, forward_days)
AddTargetReturnStage ==
    /\ stage_call.op = "none"
    /\ \E df \in PriceTables, fwd \in 0..MaxForward :
            LET out == CopyThenAssign(<<df>>, 1, add_target_return(df, fwd))
            IN  /\ heap' = out.heap
                /\ stage_call' = Called("add_target_return", <<df>>, <<fwd>>, out)

\* df = add_advanced_technical_features(df) on the output of add_indicators(df)
AddAdvancedTechnicalFeatures ==
    /\ stage_call.op = "none"
    /\ \E raw \in IndicatorTables \cup LongTables :
            LET df == add_indicators(raw, DefaultWindow, DefaultWindow, DefaultWindow)
                result == add_advanced_technical_features(df)
                out == CopyThenAssign(<<df>>, 1, result.df)
            IN  /\ IF result.status = "ok"
                   THEN /\ heap' = out.heap
                        /\ stage_call' = Called("add_advanced_technical_features",
                                                <<df>>, <<>>, out)
                   ELSE /\ heap' = <<df>>
                        /\ stage_call' = Raised("add_advanced_technical_features",
                                                <<df>>, <<>>, result.status)

\* The feature dictionaries create_fundamental_features can hand on.
FeatureDicts ==
    {create_fundamental_features(load_fundamental_ratios("AAPL", u, EmptyDir).frame) :
        u \in Upstreams}

\* encoded = encode_categorical_features(features)
EncodeCategoricalFeatures ==
    /\ stage_call.op = "none"
    /\ \E features \in FeatureDicts :
            LET out == CopyThenAssign(<<features>>, 1,
                                      encode_categorical_features(features))
            IN  /\ heap' = out.heap
                /\ stage_call' = Called("encode_categorical_features",
                                        <<features>>, <<>>, out)

\* combined = merge_fundamental_with_technical(df, features, ticker): the
\* features are encoded into a copy, the columns go to a copy of the table.
MergeStage ==
    /\ stage_call.op = "none"
    /\ \E df \in MergeTables, features \in FeatureDicts :
            LET enc == CopyThenAssign(<<df, features>>, 2,
                                      encode_categorical_features(features))
                out == CopyThenAssign(enc.heap, 1,
                         merge_fundamental_with_technical(enc.heap[1], enc.heap[2], "AAPL"))
            IN  /\ heap' = out.heap
                /\ stage_call' = Called("merge_fundamental_with_technical",
                                        <<df, features>>, <<>>, out)

\* df_pred = apply_label(df_pred, threshold) on a table of predictions, fresh
\* or labelled by an earlier call.
ApplyLabelStage ==
    /\ stage_call.op = "none"
    /\ \E fresh_df \in LabelTables, th \in Thresholds, earlier \in Thresholds,
           labelled \in BOOLEAN :
            LET df == IF labelled
                      THEN apply_label(fresh_df, earlier, "predicted_return", "predicted_label")
                      ELSE fresh_df
                out == CopyThenAssign(<<df>>, 1,
                         apply_label(df, th, "predicted_return", "predicted_label"))
            IN  /\ heap' = out.heap
                /\ stage_call' = Called("apply_label", <<df>>, <<th>>, out)

\* State: the price file read, the arguments and the outcome of one run of
\* process_and_save_with_indicators.
VARIABLES proc_input, proc_args, proc_output

procVars == <<proc_input, proc_args, proc_output>>

ProcInit ==
    /\ proc_input = EmptyTable
    /\ proc_args = [window |-> 0, forward_days |-> 0, drop_na |-> FALSE, dir |-> ""]
    /\ proc_output = [status |-> "none"]

\* process_and_save_with_indicators(input_csv, output_csv, w, w, w, f, drop_na)
ProcessAndSaveWithIndicators ==
    \E file \in PriceFiles, w \in 1..MaxWindow, fwd \in 0..MaxForward,
       drop_na \in BOOLEAN, dir \in {"", "data"} :
        /\ proc_output.status = "none"
        /\ proc_input' = file
        /\ proc_args' = [window |-> w, forward_days |-> fwd,
                         drop_na |-> drop_na, dir |-> dir]
        /\ proc_output' = process_and_save_with_indicators(file, dir, w, w, w,
                                                           fwd, drop_na)

\* ------------- src/enhanced_features.py: create_comprehensive_feature_set
\* A table handed on whole, without the selection.
AllColumns(df, names) == df

\* df[names]: the named columns, in the order of the list.
SelectColumns(df, names) ==
    [cols |-> names,
     rows |-> [i \in 1..NRows(df) |->
                 [c \in {names[k] : k \in 1..Len(names)} |-> df.rows[i][c]]]]

\* feature_columns, price_columns
feature_columns ==
    <<"SMA", "RSI", "EMA", "daily_return", "volatility_20d", "volatility_60d",
      "momentum_5d", "momentum_20d", "momentum_60d", "volume_ratio",
      "price_vs_sma_20", "price_vs_ema_20",
      "pe_ratio", "pb_ratio", "debt_to_equity", "current_ratio", "roe", "roa",
      "revenue_growth_yoy", "earnings_growth_yoy", "market_cap", "enterprise_value",
      "market_cap_category_encoded", "sector_code_encoded">>
price_columns == <<"Open", "High", "Low", "Close", "Volume">>

\* [col for col in names if col in df.columns]
Available(names, df) == SelectSeq(names, LAMBDA c : HasCol(df, c))

\* final_features = ['Date', 'ticker'] + available_price_columns
\*                  + available_features + ['target_return']
final_features(combined) ==
    <<"Date", "ticker">> \o Available(price_columns, combined)
    \o Available(IF HasCol(combined, "bb_position")
                 THEN Append(feature_columns, "bb_position")
                 ELSE feature_columns, combined)
    \o <<"target_return">>

\* final_df = combined[final_features]
final_df(combined) == SelectColumns(combined, final_features(combined))

\* The steps after the technical features and the snapshot were made: the
\* TypeError of the Bollinger bands leaves the function, otherwise target,
\* merge and selection follow.
FeatureSetOf(ticker, advanced, ratios) ==
    IF advanced.status # "ok" THEN [status |-> advanced.status, df |-> EmptyTable]
    ELSE [status |-> "ok",
          df |-> final_df(merge_fundamental_with_technical(
                            add_target_return(advanced.df, DefaultForward),
                            create_fundamental_features(ratios), ticker))]

\* create_comprehensive_feature_set(ticker, price_csv, fundamentals_dir) with
\* the fundamentals directory empty before the call: the stages in their
\* order, then the selection of the final columns.  An error of the advanced
\* stage is not caught.
create_comprehensive_feature_set(ticker, price_file, upstream) ==
    FeatureSetOf(ticker,
                 add_advanced_technical_features(
                     add_indicators(load_stock_csv(price_file), DefaultWindow,
                                    DefaultWindow, DefaultWindow)),
                 load_fundamental_ratios(ticker, upstream, EmptyDir).frame)

\* Price files for the feature set: short and long series, and a series of
\* BBLength bars with a column that is no price column, or with a volume that
\* does not parse.
FeatureSetFiles ==
    LongTables
    \cup {Bars(Ones(k), Ones(k)) : k \in 1..2}
    \cup {SetCol(f, "Adj Close", Ones(NRows(f))) :
            f \in {g \in LongTables : NRows(g) = BBLength}}
    \cup {SetCol(f, "Volume", [i \in 1..NRows(f) |-> IF i = 1 THEN Str("n/a") ELSE One]) :
            f \in {g \in LongTables : NRows(g) = BBLength}}

\* Snapshot sources for the feature set: no answer, no info, and the info
\* maps without a sector or with a sector of the encoding, and without a
\* market capitalisation or with one on a tier bound.
FeatureSetUpstreams ==
    {u \in Upstreams :
        (u.kind = "data" /\ u.data["info"].kind = "dict") =>
            /\ "marketCap" \in DOMAIN u.data["info"].d
                 => u.data["info"].d["marketCap"].n \in {MidCapBn, LargeCapBn}
            /\ "sector" \in DOMAIN u.data["info"].d
                 => u.data["info"].d["sector"] = Str("Technology")}

\* State: the price file, the snapshot source and the outcome of one call.
VARIABLES fs_file, fs_upstream, fs_output

fsVars == <<fs_file, fs_upstream, fs_output>>

FsInit ==
    /\ fs_file = EmptyTable
    /\ fs_upstream = NotContacted
    /\ fs_output = [status |-> "none"]

\* features_df = create_comprehensive_feature_set(ticker, price_csv, dir)
CreateComprehensiveFeatureSet ==
    /\ fs_output.status = "none"
    /\ \E file \in FeatureSetFiles, u \in FeatureSetUpstreams :
         /\ fs_file' = file
         /\ fs_upstream' = u
         /\ fs_output' = create_comprehensive_feature_set("AAPL", file, u)

\* ------------------------------------- src/data_fetcher.py: the CSV written
\* A timestamp: seconds since the epoch.
Timestamp(sec) == [k |-> "ts", n |-> sec, d |-> 1, s |-> ""]
IsMidnight(x) == x.k = "ts" /\ x.n % DaySeconds = 0

\* A field of a CSV line: digits, a decimal number, nothing, an ISO date, an
\* ISO date with a time, or other text.
Field(t, n, d, s) == [t |-> t, n |-> n, d |-> d, s |-> s]

\* A formatter that writes a whole float like an integer ("1" for 1.0).
FormatCellShort(x, dateOnly) ==
    CASE x.k \in {"int64", "pyint"} -> Field("int", x.n, 1, "")
      [] x.k = "num" -> IF x.d = 1 THEN Field("int", x.n, 1, "")
                        ELSE Field("float", x.n, x.d, "")
      [] x.k \in {"nan", "none"} -> Field("empty", 0, 1, "")
      [] x.k = "ts" -> IF dateOnly THEN Field("date", x.n \div DaySeconds, 1, "")
                       ELSE Field("datetime", x.n, 1, "")
      [] OTHER -> Field("text", 0, 1, x.s)

\* DataFrame.to_csv, one cell: an integer prints its digits, a float its
\* shortest repr (with ".0" when whole), a missing value nothing, a timestamp
\* its date, and its time too unless every timestamp of the column is at
\* midnight.
FormatCell(x, dateOnly) ==
    CASE x.k \in {"int64", "pyint"} -> Field("int", x.n, 1, "")
      [] x.k = "num" -> Field("float", x.n, x.d, "")
      [] x.k \in {"nan", "none"} -> Field("empty", 0, 1, "")
      [] x.k = "ts" -> IF dateOnly THEN Field("date", x.n \div DaySeconds, 1, "")
                       ELSE Field("datetime", x.n, 1, "")
      [] OTHER -> Field("text", 0, 1, x.s)

\* df.to_csv(file_path, index=False): the header, then one line per row with
\* the cells in column order.
to_csv(df) ==
    LET dateOnly(c) == \A i \in 1..NRows(df) : IsMidnight(df.rows[i][c])
    IN  [header |-> df.cols,
         lines |-> [i \in 1..NRows(df) |->
                      [j \in 1..Len(df.cols) |->
                          FormatCell(df.rows[i][df.cols[j]], dateOnly(df.cols[j]))]]]

\* pd.read_csv, one column: int64 when every field is digits, float64 when
\* every field is a number or empty, timestamps when dates are parsed and
\* every field is a date, strings otherwise.
ParseColumn(fields, parse_dates) ==
    LET n == Len(fields)
        kinds == {fields[i].t : i \in 1..n}
    IN  IF kinds \subseteq {"int"} THEN [i \in 1..n |-> Int64(fields[i].n)]
        ELSE IF kinds \subseteq {"int", "float", "empty"}
             THEN [i \in 1..n |-> IF fields[i].t = "empty" THEN NaN
                                  ELSE Num(fields[i].n, fields[i].d)]
        ELSE IF parse_dates /\ kinds \subseteq {"date", "datetime"}
             THEN [i \in 1..n |-> IF fields[i].t = "date"
                                  THEN Timestamp(fields[i].n * DaySeconds)
                                  ELSE Timestamp(fields[i].n)]
        ELSE [i \in 1..n |-> Str(fields[i].s)]

\* pd.read_csv(file_path, index_col=0, parse_dates=True): the first column
\* is the index, parsed as dates; the others are the columns of the frame.
read_csv_indexed(file) ==
    LET n == Len(file.lines)
        column(j) == ParseColumn([i \in 1..n |-> file.lines[i][j]], j = 1)
        names == Tail(file.header)
    IN  [index_name |-> Head(file.header),
         index |-> column(1),
         cols |-> names,
         rows |-> [i \in 1..n |->
                     [c \in {names[j] : j \in 1..Len(names)} |->
                         column(1 + CHOOSE j \in 1..Len(names) : names[j] = c)[i]]]]

\* df.index.name = 'Date'; df = df.reset_index(): the index becomes the
\* first column.
reset_index(frame) ==
    [cols |-> <<"Date">> \o frame.cols,
     rows |-> [i \in 1..Len(frame.rows) |->
                 [c \in {"Date"} \cup DOMAIN frame.rows[i] |->
                     IF c = "Date" THEN frame.index[i] ELSE frame.rows[i][c]]]]

\* pd.DataFrame({...}) on a list of JSON numbers: int64 when all are ints,
\* float64 otherwise.
FrameColumn(values) ==
    IF \A i \in 1..Len(values) : values[i].k = "pyint"
    THEN [i \in 1..Len(values) |-> Int64(values[i].n)]
    ELSE [i \in 1..Len(values) |-> Num(values[i].n, values[i].d)]

\* The frame fetch_and_save_finnhub builds from the candle body.
CandleFrame(data) ==
    LET column(c) ==
            CASE c = "Date" -> [i \in 1..Len(data.t) |-> Timestamp(data.t[i])]
              [] c = "Open" -> FrameColumn(data.o)
              [] c = "High" -> FrameColumn(data.h)
              [] c = "Low" -> FrameColumn(data.l)
              [] c = "Close" -> FrameColumn(data.c)
              [] OTHER -> FrameColumn(data.v)
        names == <<"Date", "Open", "High", "Low", "Close", "Volume">>
    IN  [cols |-> names,
         rows |-> [i \in 1..Len(data.t) |->
                     [c \in {names[j] : j \in 1..Len(names)} |-> column(c)[i]]]]

\* What yf.download returns: None, or daily bars indexed by their date with a
\* float Close (NaN where yfinance has no price) and an integer Volume.
DownloadedFrames ==
    {[isNone |-> TRUE, index |-> <<>>, cols |-> <<>>, rows |-> <<>>]}
    \cup UNION {
        {[isNone |-> FALSE,
          index |-> [i \in 1..n |-> Timestamp(i * DaySeconds)],
          cols |-> <<"Close", "Volume">>,
          rows |-> [i \in 1..n |->
                      [c \in {"Close", "Volume"} |->
                          IF c = "Close" THEN close[i] ELSE Int64(volume[i])]]] :
            close \in [1..n -> {NaN, One, Num(3, 2)}],
            volume \in [1..n -> {0, 100}]} : n \in 0..MaxFetchRows}

\* Candle bodies: s = 'ok' with bars at increasing times (midnight or not)
\* and JSON numbers that are ints or floats, or s = 'no_data'.
CandleTimes == {0, DaySeconds, DaySeconds + 3600}
CandleBodies ==
    {[s |-> "no_data", t |-> <<>>, o |-> <<>>, h |-> <<>>, l |-> <<>>,
      c |-> <<>>, v |-> <<>>]}
    \cup UNION {
        {[s |-> "ok", t |-> t, o |-> c, h |-> c, l |-> c, c |-> c, v |-> v] :
            t \in {q \in [1..n -> CandleTimes] :
                     \A i \in 1..(n - 1) : q[i] < q[i + 1]},
            c \in [1..n -> {PyInt(1), Num(3, 2)}],
            v \in [1..n -> {PyInt(100), Num(1, 2)}]} : n \in 1..MaxFetchRows}

\* State: one fetch into an empty directory, with the table fetched and the
\* CSV files on disk after it.
VARIABLES csv_files, csv_call

csvVars == <<csv_files, csv_call>>

CsvInit ==
    /\ csv_files = {}
    /\ csv_call = [op |-> "none", status |-> "none"]

\* fetch_and_save_yfinance with the content of the file written.
FetchYfinanceCsv ==
    /\ csv_call.op = "none"
    /\ \E ticker \in Tickers, dates \in DateRanges, df \in DownloadedFrames :
        LET r == fetch_and_save_yfinance(ticker, dates, 0,
                     [isNone |-> df.isNone, rows |-> Len(df.rows)], {})
        IN  /\ csv_call' = [op |-> "fetch_and_save_yfinance", status |-> r.status,
                            ret |-> r.ret,
                            fetched |-> [index |-> df.index, cols |-> df.cols,
                                         rows |-> df.rows]]
            /\ csv_files' = IF r.status = "ok"
                            THEN FileWrite(csv_files, r.ret, to_csv(reset_index(df)))
                            ELSE csv_files

\* fetch_and_save_finnhub with the content of the file written.
FetchFinnhubCsv ==
    /\ csv_call.op = "none"
    /\ \E ticker \in Tickers, dates \in DateRanges, data \in CandleBodies :
        LET r == fetch_and_save_finnhub(ticker, dates, 0,
                     [s |-> data.s, rows |-> Len(data.t)], {})
            df == CandleFrame(data)
        IN  /\ csv_call' = [op |-> "fetch_and_save_finnhub", status |-> r.status,
                            ret |-> r.ret,
                            fetched |-> [index |-> Col(df, "Date"),
                                         cols |-> Tail(df.cols),
                                         rows |-> SelectColumns(df, Tail(df.cols)).rows]]
            /\ csv_files' = IF r.status = "ok"
                            THEN FileWrite(csv_files, r.ret, to_csv(df))
                            ELSE csv_files

\* ------------------------------------------------- src/run_pipeline.py
\* Directories are lists of components; a component formatted from a date
\* carries its day.  Dates are days counted from 1 (January 1st).
DirPart(name, day) == [name |-> name, day |-> day]
ResultsDir == <<DirPart("results", 0)>>
ModelsDir == <<DirPart("models", 0)>>
NoWindow == [start |-> 0, end |-> 0]

\* raw_csv, processed_csv, pred_csv and the ratios file of a run
raw_csv(a) == Path(a.results_dir, "ticker_raw", a.ticker, NoWindow, 0)
processed_csv(a) == Path(a.results_dir, "ticker_processed", a.ticker, NoWindow, 0)
pred_csv_path(a) == Path(a.results_dir, "ticker_pred", a.ticker, NoWindow, 0)
ratios_csv(a) ==
    Path(a.results_dir \o <<DirPart("fundamentals", 0)>>, "ticker_ratios",
         a.ticker, NoWindow, 0)

\* The path of the file the fetch step wrote, had its return value been kept.
fetched_csv(a) == RawPath(a.results_dir, a.ticker, a.dates)

\* A run: its status, the files on disk, the files it wrote (by stage) and
\* the files its stages opened for reading (found or not, and the stage of
\* this run that wrote them, "nobody" for a file the run did not write).
Begin(files) ==
    [status |-> "running", files |-> files, writes |-> <<>>, reads |-> <<>>]

WriterOf(r, path) ==
    IF \E k \in 1..Len(r.writes) : r.writes[k].path = path
    THEN r.writes[CHOOSE k \in 1..Len(r.writes) :
                    /\ r.writes[k].path = path
                    /\ \A j \in (k + 1)..Len(r.writes) : r.writes[j].path # path].stage
    ELSE "nobody"

WriteFile(r, stage, path, content) ==
    [r EXCEPT !.files = FileWrite(@, path, content),
              !.writes = Append(@, [stage |-> stage, path |-> path])]

\* open(path) / pd.read_csv(path): FileNotFoundError when there is no file.
ReadFile(r, stage, path) ==
    [r EXCEPT !.reads = Append(@, [stage |-> stage, path |-> path,
                                   found |-> FileExists(r.files, path),
                                   by |-> WriterOf(r, path)]),
              !.status = IF FileExists(r.files, path) THEN @
                         ELSE "FileNotFoundError"]

\* 1. data_fetcher.fetch_and_save_yfinance(ticker, start, end, save_dir=results_dir);
\* the path it returns is dropped.
FetchStep(r, a, env) ==
    LET f == fetch_and_save_yfinance(a.ticker, a.dates, a.results_dir,
                                     env.download, r.files)
    IN  IF r.status # "running" THEN r
        ELSE IF f.status # "ok" THEN [r EXCEPT !.status = f.status]
        ELSE [r EXCEPT !.files = f.files,
                       !.writes = Append(@, [stage |-> "fetch", path |-> f.ret])]

\* 2. fundamental_fetcher.fetch_and_save_fundamentals(ticker, fundamentals_dir)
\* saves the ratios when the source has any.
FundamentalsStep(r, a, env) ==
    IF r.status # "running" \/ ~a.use_fundamentals \/ ~env.ratios THEN r
    ELSE WriteFile(r, "fundamentals", ratios_csv(a), 2)

\* 3. features.process_with_fundamentals is no attribute of features.py: the
\* AttributeError is caught and both branches end in
\* features.process_and_save_with_indicators(raw_csv, processed_csv).
FeatureStep(r, a, env) ==
    LET opened == ReadFile(r, "features", raw_csv(a))
    IN  IF r.status # "running" THEN r
        ELSE IF opened.status # "running" THEN opened
        ELSE WriteFile(opened, "features", processed_csv(a), 3)

\* 4. train_model.train_xgboost_regressor(processed_csv, model_path)
TrainStep(r, a, env) ==
    LET opened == ReadFile(r, "train", processed_csv(a))
    IN  IF r.status # "running" THEN r
        ELSE IF opened.status # "running" THEN opened
        ELSE IF ~env.trains THEN [opened EXCEPT !.status = "ValueError"]
        ELSE WriteFile(opened, "train", a.model_path, 4)

\* 5. load_model(model_path), predict_returns(model_data, processed_csv),
\* apply_label, df_pred.to_csv(pred_csv)
PredictStep(r, a, env) ==
    LET loaded == ReadFile(r, "predict", a.model_path)
        opened == ReadFile(loaded, "predict", processed_csv(a))
    IN  IF r.status # "running" THEN r
        ELSE IF loaded.status # "running" THEN loaded
        ELSE IF opened.status # "running" THEN opened
        ELSE IF ~env.predicts THEN [opened EXCEPT !.status = "ValueError"]
        ELSE WriteFile(opened, "predict", pred_csv_path(a), 5)

\* 6. backtest.backtest_strategy(pred_csv); return results
BacktestStep(r, a, env) ==
    LET opened == ReadFile(r, "backtest", pred_csv_path(a))
    IN  IF r.status # "running" THEN r
        ELSE IF opened.status # "running" THEN opened
        ELSE [opened EXCEPT !.status = "returned"]

\* run_pipeline(ticker, start, end, model_path, results_dir, use_fundamentals)
run_pipeline(files, a, env) ==
    BacktestStep(
      PredictStep(
        TrainStep(
          FeatureStep(
            FundamentalsStep(
              FetchStep(Begin(files), a, env), a, env), a, env), a, env), a, env),
      a, env)

\* What the outside answers during a run: the download, whether the source
\* has ratios, whether the fit and the prediction go through.
PipelineEnvs ==
    {[download |-> d, ratios |-> f, trains |-> t, predicts |-> q] :
        d \in {[isNone |-> TRUE, rows |-> 0], [isNone |-> FALSE, rows |-> 0],
               [isNone |-> FALSE, rows |-> 1]},
        f \in BOOLEAN, t \in BOOLEAN, q \in BOOLEAN}

PipelineArgs ==
    {[ticker |-> t, dates |-> [start |-> 1, end |-> 31],
      model_path |-> Path(ModelsDir, "model", "", NoWindow, 0),
      results_dir |-> ResultsDir, use_fundamentals |-> u] :
        t \in Tickers, u \in BOOLEAN}

\* State: the arguments and surroundings of one run, the run, and the number
\* of the stage it is at.
VARIABLES pipe_args, pipe_env, pipe_run, pipe_pc

pipeVars == <<pipe_args, pipe_env, pipe_run, pipe_pc>>

PipeInit ==
    /\ pipe_args = [ticker |-> "", dates |-> NoWindow,
                    model_path |-> Path(ModelsDir, "model", "", NoWindow, 0),
                    results_dir |-> ResultsDir, use_fundamentals |-> FALSE]
    /\ pipe_env = [download |-> [isNone |-> TRUE, rows |-> 0], ratios |-> FALSE,
                   trains |-> FALSE, predicts |-> FALSE]
    /\ pipe_run = [status |-> "none", files |-> {}, writes |-> <<>>, reads |-> <<>>]
    /\ pipe_pc = 0

\* run_pipeline is called; results_dir is empty or holds a {ticker}_raw.csv
\* that something else left there.
PipelineStart ==
    /\ pipe_pc = 0
    /\ \E a \in PipelineArgs, env \in PipelineEnvs, left \in BOOLEAN :
         /\ pipe_args' = a
         /\ pipe_env' = env
         /\ pipe_run' = Begin(IF left THEN {[path |-> raw_csv(a), content |-> 0]}
                              ELSE {})
         /\ pipe_pc' = 1

PipelineStep(pc, Step(_, _, _)) ==
    /\ pipe_pc = pc
    /\ pipe_run.status = "running"
    /\ pipe_run' = Step(pipe_run, pipe_args, pipe_env)
    /\ pipe_pc' = pc + 1
    /\ UNCHANGED <<pipe_args, pipe_env>>

PipelineFetch == PipelineStep(1, FetchStep)
PipelineFundamentals == PipelineStep(2, FundamentalsStep)
PipelineFeatures == PipelineStep(3, FeatureStep)
PipelineTrain == PipelineStep(4, TrainStep)
PipelinePredict == PipelineStep(5, PredictStep)
PipelineBacktest == PipelineStep(6, BacktestStep)

\* --------------------------------- src/run_pipeline.py: monthly retrain
\* The calendar: the days of the months of a common year, counted from 1.
MonthDays == <<31, 28, 31, 30, 31, 30, 31, 31, 30, 31, 30, 31>>
RECURSIVE MonthStart(_)
MonthStart(m) == IF m = 1 THEN 1 ELSE MonthStart(m - 1) + MonthDays[m - 1]
LastDay == MonthStart(MaxMonths + 1) - 1

\* pd.date_range(start=start, end=end, freq='MS'): the month starts in
\* [start, end], ascending.
MonthStarts(start, end) ==
    LET inside(m) == start <= MonthStart(m) /\ MonthStart(m) <= end
        ms == {m \in 1..MaxMonths : inside(m)}
    IN  [i \in 1..Cardinality(ms) |->
            MonthStart(CHOOSE m \in ms : Cardinality({q \in ms : q < m}) = i - 1)]

\* The arguments of the i-th call of run_pipeline in run_monthly_retrain.
MonthlyArgs(ticker, months, i, results_dir) ==
    [ticker |-> ticker,
     dates |-> [start |-> months[i], end |-> months[i + 1] - 1],
     model_path |-> Path(results_dir, "model", "", [start |-> months[i], end |-> 0], 0),
     results_dir |-> results_dir \o <<DirPart("results", months[i])>>,
     use_fundamentals |-> TRUE]

\* The days a run can be asked for: the first, second and last of each month.
RetrainDays ==
    UNION {{MonthStart(m), MonthStart(m) + 1, MonthStart(m + 1) - 1} : m \in 1..MaxMonths}

\* State: one call of run_monthly_retrain: its arguments, the month starts,
\* the index of the next month, the calls of run_pipeline made so far (with
\* the paths each wrote) and the files on disk.
VARIABLES retrain, retrain_files

retrainVars == <<retrain, retrain_files>>

RetrainInit ==
    /\ retrain = [status |-> "none", start |-> 0, end |-> 0, months |-> <<>>,
                  i |-> 0, calls |-> <<>>]
    /\ retrain_files = {}

\* run_monthly_retrain(ticker, start, end, model_path, results_dir); the
\* monthly result directories are new, or each holds a {ticker}_raw.csv that
\* something else left there.
RunMonthlyRetrain ==
    /\ retrain.status = "none"
    /\ \E start \in RetrainDays, end \in RetrainDays, left \in BOOLEAN :
         LET months == MonthStarts(start, end)
         IN  /\ retrain' = [status |-> "running", start |-> start, end |-> end,
                            months |-> months, i |-> 1, calls |-> <<>>]
             /\ retrain_files' =
                  IF left
                  THEN {[path |-> raw_csv(MonthlyArgs("AAPL", months, i, ResultsDir)),
                         content |-> 0] : i \in 1..(Len(months) - 1)}
                  ELSE {}

\* One pass of the loop: run_pipeline for month i; an error it raises ends
\* run_monthly_retrain.
RetrainMonth ==
    /\ retrain.status = "running"
    /\ retrain.i <= Len(retrain.months) - 1
    /\ \E env \in PipelineEnvs :
         LET a == MonthlyArgs("AAPL", retrain.months, retrain.i, ResultsDir)
             r == run_pipeline(retrain_files, a, env)
             call == [args |-> a, status |-> r.status,
                      wrote |-> {r.writes[k].path : k \in 1..Len(r.writes)}]
         IN  /\ retrain' = [retrain EXCEPT
                              !.calls = Append(@, call),
                              !.i = @ + 1,
                              !.status = IF r.status = "returned" THEN @
                                         ELSE r.status]
             /\ retrain_files' = r.files

\* The loop is over: run_monthly_retrain returns.
RetrainReturn ==
    /\ retrain.status = "running"
    /\ retrain.i > Len(retrain.months) - 1
    /\ retrain' = [retrain EXCEPT !.status = "returned"]
    /\ UNCHANGED retrain_files

\* ---------------------------- app/enhanced_dashboard.py: prediction badge
\* A badge text that tests the sell bound first.
get_prediction_text_sell_first(predicted_return, threshold) ==
    IF Ge(Neg(threshold), predicted_return) THEN "SELL"
    ELSE IF Ge(predicted_return, threshold) THEN "BUY"
    ELSE "HOLD"

\* get_prediction_color
get_prediction_color(predicted_return, threshold) ==
    IF Ge(predicted_return, threshold) THEN "buy"
    ELSE IF Ge(Neg(threshold), predicted_return) THEN "sell"
    ELSE "hold"

\* get_prediction_text
get_prediction_text(predicted_return, threshold) ==
    IF Ge(predicted_return, threshold) THEN "BUY"
    ELSE IF Ge(Neg(threshold), predicted_return) THEN "SELL"
    ELSE "HOLD"

\* prediction_threshold / 100 for the slider positions -10.0, -9.5, ..., 10.0
SliderThresholds ==
    {Num(k, SliderStepsPerUnit) : k \in (0 - SliderSteps)..SliderSteps}

\* Predicted returns: the slider values, the values between them, one step
\* beyond them, and NaN.
BadgeReturns ==
    {NaN} \cup {Num(j, 2 * SliderStepsPerUnit) :
                  j \in (0 - 2 * SliderSteps - 2)..(2 * SliderSteps + 2)}

\* State: the last badge shown, with the label apply_label gave the row.
VARIABLE badge

badgeVars == <<badge>>

BadgeInit == badge = [op |-> "none"]

\* df_pred = predictor.apply_label(df_pred, threshold=prediction_threshold/100);
\* display_prediction_results(df_pred, prediction_threshold/100)
DisplayPredictionResults ==
    /\ badge.op = "none"
    /\ \E predicted \in BadgeReturns, threshold \in SliderThresholds :
         LET df_predicted == [cols |-> <<"predicted_return">>,
                              rows |-> <<[c \in {"predicted_return"} |-> predicted]>>]
             labelled == apply_label(df_predicted, threshold,
                                     "predicted_return", "predicted_label")
             latest_pred == labelled.rows[NRows(labelled)]
         IN  badge' =
               [op |-> "display_prediction_results",
                predicted_return |-> latest_pred["predicted_return"],
                threshold |-> threshold,
                label |-> latest_pred["predicted_label"],
                text |-> get_prediction_text(latest_pred["predicted_return"], threshold),
                color |-> get_prediction_color(latest_pred["predicted_return"], threshold)]

\* ------------------------- app/enhanced_dashboard.py: the session state
\* A key that st.session_state does not hold.
NoEntry == [present |-> FALSE, run |-> 0, ticker |-> ""]

\* The value a run stores under a key: the prediction table df_pred of the
\* run (named by the number of the run) and its ticker.
EntryOf(run) == [present |-> TRUE, run |-> run.run, ticker |-> run.ticker]

\* State: st.session_state (the keys 'analysis_results' and 'export_data'),
\* the number of Run Analysis clicks so far, the run in progress and the
\* position of run_enhanced_analysis in it.
VARIABLES session_state, run_count, analysis_run, analysis_pc

sessVars == <<session_state, run_count, analysis_run, analysis_pc>>

SessInit ==
    /\ session_state = [analysis_results |-> NoEntry, export_data |-> NoEntry]
    /\ run_count = 0
    /\ analysis_run = [run |-> 0, ticker |-> ""]
    /\ analysis_pc = "idle"

\* if run_button: ... run_enhanced_analysis()
RunAnalysis ==
    /\ analysis_pc = "idle"
    /\ run_count < MaxRuns
    /\ \E ticker \in Tickers :
         /\ run_count' = run_count + 1
         /\ analysis_run' = [run |-> run_count + 1, ticker |-> ticker]
         /\ analysis_pc' = "prepare"
    /\ UNCHANGED session_state

\* Fetch, fundamentals, features, load_model and predict_returns: the run
\* goes on, or it returns early (no price data, no model) or raises, and the
\* except clause reports the error.
PrepareAnalysis ==
    /\ analysis_pc = "prepare"
    /\ \E ok \in BOOLEAN :
         analysis_pc' = IF ok THEN "store_results" ELSE "idle"
    /\ UNCHANGED <<session_state, run_count, analysis_run>>

\* st.session_state['analysis_results'] = {...}
StoreAnalysisResults ==
    /\ analysis_pc = "store_results"
    /\ session_state' =
         [session_state EXCEPT !.analysis_results = EntryOf(analysis_run)]
    /\ analysis_pc' = "display"
    /\ UNCHANGED <<run_count, analysis_run>>

\* display_fundamental_summary, display_technical_indicators and
\* display_prediction_results: they return, or one of them raises.
DisplayResults ==
    /\ analysis_pc = "display"
    /\ \E ok \in BOOLEAN :
         analysis_pc' = IF ok THEN "store_export" ELSE "idle"
    /\ UNCHANGED <<session_state, run_count, analysis_run>>

\* st.session_state['export_data'] = {...}: the to_csv calls of the value
\* return, or one raises before the key is assigned.
StoreExportData ==
    /\ analysis_pc = "store_export"
    /\ \E ok \in BOOLEAN :
         session_state' =
           IF ok THEN [session_state EXCEPT !.export_data = EntryOf(analysis_run)]
           ELSE session_state
    /\ analysis_pc' = "idle"
    /\ UNCHANGED <<run_count, analysis_run>>

\* The Clear Results button of display_export_section, shown while
\* 'export_data' is in the session state.
ClearResults ==
    /\ analysis_pc = "idle"
    /\ session_state.export_data.present
    /\ session_state' = [analysis_results |-> NoEntry, export_data |-> NoEntry]
    /\ UNCHANGED <<run_count, analysis_run, analysis_pc>>

\* ------------------------------------------------ claims on the labelers
\* v >= threshold over the reals; a missing v is not >= anything.
SpecAtLeast(v, threshold) == IsNum(v) /\ v.n * threshold.d >= threshold.n * v.d

LabelledBy(src, lab) ==
    /\ HasCol(df_pred, lab)
    /\ NRows(df_pred) = NRows(label_in)
    /\ \A i \in 1..NRows(df_pred) :
        /\ df_pred.rows[i][lab] \in {Zero, One}
        /\ df_pred.rows[i][lab] = One
             <=> SpecAtLeast(label_in.rows[i][src], label_call.threshold)

\* C2: for every row and every threshold (negative, zero, positive) the label
\* written by apply_label (from predicted_return) and by
\* apply_classification_thresholds (from target_return) is 1 exactly when the
\* value is >= the threshold and 0 otherwise; a tie gets 1; every row gets a
\* label in {0, 1}.
C2_LabelIsThresholdTest ==
    /\ label_call.op = "apply_label"
         => LabelledBy("predicted_return", "predicted_label")
    /\ label_call.op = "apply_classification_thresholds"
         => LabelledBy("target_return", "label")

\* Both labelers have run, the last with a negative threshold on a table with
\* a tie (label 1) and a missing value (label 0).
C2_Witness ==
    /\ label_call.op = "apply_classification_thresholds"
    /\ Lt(label_call.threshold, Zero)
    /\ HasCol(df_pred, "predicted_label")
    /\ \E i, j \in 1..NRows(df_pred) :
        /\ df_pred.rows[i]["target_return"] = label_call.threshold
        /\ df_pred.rows[i]["label"] = One
        /\ IsNaN(df_pred.rows[j]["target_return"])
        /\ df_pred.rows[j]["label"] = Zero

\* The 0/1 label columns a table of n rows can carry.
LabelVectors(n) == [1..n -> {Zero, One}]

\* C3: apply_label is idempotent, apply_label(apply_label(df, th), th) =
\* apply_label(df, th) in every column (relabelling an output, or an input that
\* was already labelled with th, changes nothing), and the label depends only
\* on predicted_return and th, not on a label the input already carries.
C3_ApplyLabelIdempotent ==
    label_call.op = "apply_label" =>
        /\ apply_label(df_pred, label_call.threshold,
                       "predicted_return", "predicted_label") = df_pred
        /\ (/\ HasCol(label_in, "predicted_label")
            /\ \A i \in 1..NRows(label_in) :
                 label_in.rows[i]["predicted_label"] = One
                   <=> SpecAtLeast(label_in.rows[i]["predicted_return"],
                                   label_call.threshold))
              => df_pred = label_in
        /\ \A old \in LabelVectors(NRows(label_in)) :
             apply_label(SetCol(label_in, "predicted_label", old),
                         label_call.threshold,
                         "predicted_return", "predicted_label")
               = SetCol(label_in, "predicted_label",
                        Col(df_pred, "predicted_label"))

\* apply_label has run on a table it had already labelled, both labels in use.
C3_Witness ==
    /\ label_call.op = "apply_label"
    /\ HasCol(label_in, "predicted_label")
    /\ df_pred = label_in
    /\ \E i, j \in 1..NRows(df_pred) :
        /\ df_pred.rows[i]["predicted_label"] = One
        /\ df_pred.rows[j]["predicted_label"] = Zero

\* ------------------------------------------------- claims on the target
TgtCalled == target_df.status = "ok"
TgtN == NRows(price_df)
TgtClose(t) == price_df.rows[t]["Close"]
TgtTarget(t) == target_df.df.rows[t]["target_return"]

\* close(t+f)/close(t) - 1 as a real number, when both closes are numbers and
\* close(t) is not zero.
SpecTargetDefined(t) ==
    /\ IsNum(TgtClose(t)) /\ IsNum(TgtClose(t + forward_days))
    /\ TgtClose(t).n # 0
SpecTargetValue(t) ==
    Num(TgtClose(t + forward_days).n * TgtClose(t).d
          - TgtClose(t).n * TgtClose(t + forward_days).d,
        TgtClose(t + forward_days).d * TgtClose(t).n)

TargetIsForwardReturn ==
    /\ NRows(target_df.df) = TgtN
    /\ \A t \in 1..TgtN :
        IF t <= TgtN - forward_days
        THEN /\ SpecTargetDefined(t)
             /\ TgtTarget(t) = SpecTargetValue(t)
        ELSE IsNaN(TgtTarget(t))

\* C4 as stated: for every price series of length n and every forward_days f
\* with n > f, target_return(t) = close(t+f)/close(t) - 1 for every row
\* t < n-f and target_return is undefined for exactly the last f rows.
C4_TargetUndefinedExactlyLastRows ==
    (TgtCalled /\ TgtN > forward_days) => TargetIsForwardReturn

\* C4 amended: the same for every price series whose closes are all defined
\* and non-zero.
C4_TargetOnDefinedCloses ==
    (/\ TgtCalled /\ TgtN > forward_days
     /\ \A t \in 1..TgtN : IsNum(TgtClose(t)) /\ TgtClose(t).n # 0)
       => TargetIsForwardReturn

\* A series of defined closes longer than a forward window of two rows, with
\* a non-zero first target.
C4_Witness ==
    /\ TgtCalled
    /\ forward_days = 2
    /\ TgtN > 3
    /\ \A t \in 1..TgtN : IsNum(TgtClose(t)) /\ TgtClose(t).n # 0
    /\ IsNum(TgtTarget(1)) /\ TgtTarget(1) # Zero
    /\ IsNaN(TgtTarget(TgtN - 1)) /\ IsNaN(TgtTarget(TgtN))

\* ------------------------------------------- claims on the fundamentals
FundCalled == fund_call.op # "none"
Snapshot == fund_files.ratios.frame
SnapshotRow == Snapshot.rows[1]
\* The tiers as the specification states them, in billions of dollars.
SpecTier(market_cap) ==
    IF IsNA(market_cap) THEN "Unknown"
    ELSE IF market_cap.n >= 10 * market_cap.d THEN "Large"
    ELSE IF market_cap.n >= 2 * market_cap.d THEN "Mid"
    ELSE "Small"
SourceAnswered ==
    /\ fund_call.upstream.kind = "data"
    /\ fund_call.upstream.data["info"].kind = "dict"

\* C9: the market_cap_category of a saved snapshot is 'Large' iff its
\* market_cap >= 10e9, 'Mid' iff 2e9 <= market_cap < 10e9, 'Small' iff
\* market_cap < 2e9 and 'Unknown' iff market_cap is undefined, the lower
\* bound of each tier included; the market_cap classified is the one the
\* source reported, and a loaded snapshot carries the same category.
C9_MarketCapTiers ==
    fund_files.ratios.exists =>
        LET mc == SnapshotRow["market_cap"]
            cat == SnapshotRow["market_cap_category"]
        IN  /\ cat.k = "str"
            /\ cat.s = "Large" <=> (IsNum(mc) /\ mc.n >= 10 * mc.d)
            /\ cat.s = "Mid" <=> (IsNum(mc) /\ mc.n >= 2 * mc.d /\ mc.n < 10 * mc.d)
            /\ cat.s = "Small" <=> (IsNum(mc) /\ mc.n < 2 * mc.d)
            /\ cat.s = "Unknown" <=> IsNA(mc)
            /\ (SourceAnswered /\ ~fund_call.existed) =>
                   mc = ToFrameCell(
                          DictGet(fund_call.upstream.data["info"].d, "marketCap", None))
            /\ (fund_call.op = "load_fundamental_ratios") =>
                   /\ NRows(fund_call.frame) = 1
                   /\ fund_call.frame.rows[1]["market_cap_category"].s
                          = SpecTier(fund_call.frame.rows[1]["market_cap"])

\* A snapshot saved for a market cap of exactly 10e9, classified Large.
C9_Witness ==
    /\ fund_call.op = "fetch_and_save_fundamentals"
    /\ fund_files.ratios.exists
    /\ SnapshotRow["market_cap"] = Int64(10)
    /\ SnapshotRow["market_cap_category"] = Str("Large")

\* The source is unreachable, or supplies neither info fields nor statements.
SourceUnusable(u) ==
    \/ u.kind = "raises"
    \/ /\ u.kind = "data"
       /\ u.data["info"].kind = "none" \/ DOMAIN u.data["info"].d = {}
       /\ StmtEmpty(u.data["income_stmt"])
       /\ StmtEmpty(u.data["balance_sheet"])
RowCarriesFields(df) ==
    \E i \in 1..NRows(df) : \E c \in ColSet(df) : ~IsNA(df.rows[i][c])

\* C10: when the source is unreachable or supplies no usable fields and no
\* snapshot was saved before, the caller receives an empty/absent snapshot:
\* fetch_and_save_fundamentals returns the empty path and saves no snapshot,
\* load_fundamental_ratios returns a frame without a row carrying fields.
C10_UnusableSourceGivesAbsentSnapshot ==
    (FundCalled /\ ~fund_call.existed /\ SourceUnusable(fund_call.upstream)) =>
        /\ ~fund_files.ratios.exists
        /\ fund_call.op = "fetch_and_save_fundamentals" => fund_call.ret = EmptyPath
        /\ fund_call.op = "load_fundamental_ratios" => ~RowCarriesFields(fund_call.frame)

\* ------------------------------------------------ claims on the merger
MrgCalled == combined_df.status = "ok"
FundamentalFields ==
    {"pe_ratio", "pb_ratio", "debt_to_equity", "current_ratio", "roe", "roa",
     "revenue_growth_yoy", "earnings_growth_yoy", "market_cap",
     "enterprise_value", "sector_classified", "sector_code",
     "market_cap_category"}
\* The field is a column of the loaded snapshot and holds a value.
SnapshotDefines(f) ==
    /\ NRows(ratios_df) > 0
    /\ HasCol(ratios_df, f)
    /\ ~IsNA(ratios_df.rows[1][f])

\* C11: a fundamental column is in the merged table iff its field is defined
\* in the snapshot, the two encoded columns iff their categorical field is,
\* and a column that is present carries the snapshot's value in every row.
C11_ColumnPresentIffFieldDefined ==
    MrgCalled =>
        /\ \A f \in FundamentalFields :
              /\ HasCol(combined_df.df, f) <=> SnapshotDefines(f)
              /\ HasCol(combined_df.df, f) =>
                    \A i \in 1..NRows(combined_df.df) :
                        combined_df.df.rows[i][f] = ratios_df.rows[1][f]
        /\ HasCol(combined_df.df, "market_cap_category_encoded")
              <=> SnapshotDefines("market_cap_category")
        /\ HasCol(combined_df.df, "sector_code_encoded")
              <=> SnapshotDefines("sector_code")

\* ------------------------------------------- claims on the growth ratios
RatCalled == key_ratios.status = "ok"
RatIncome == fundamental_data["income_stmt"]
\* The line item has a value for each of the two latest periods.
SpecItemAvailable(item) ==
    /\ item \in DOMAIN RatIncome.items
    /\ RatIncome.ncols >= 2
    /\ ~IsNA(RatIncome.items[item][1])
    /\ ~IsNA(RatIncome.items[item][2])
SpecGrowthHolds(item, name) ==
    LET cur == RatIncome.items[item][1]
        prior == RatIncome.items[item][2]
    IN  /\ HasCol(key_ratios.df, name)
            <=> (SpecItemAvailable(item) /\ prior.n # 0)
        /\ HasCol(key_ratios.df, name) =>
              /\ key_ratios.df.rows[1][name].k = "num"
              /\ key_ratios.df.rows[1][name]
                    = Num((cur.n * prior.d - prior.n * cur.d) * prior.d,
                          cur.d * prior.d * prior.n)

\* C12: revenue_growth_yoy and earnings_growth_yoy are set exactly when the
\* line item has a value for the two latest periods and the prior value is
\* not zero, and then equal (current - prior)/prior, a finite number; else
\* the field is not set.
C12_GrowthSetOnlyWhenComputable ==
    RatCalled =>
        /\ SpecGrowthHolds("Total Revenue", "revenue_growth_yoy")
        /\ SpecGrowthHolds("Net Income", "earnings_growth_yoy")

\* ------------------------------------------------ claims on the fetchers
FetchCalled == fetch_call.op # "none"

\* C13: when the price source returns nothing for the ticker and date range,
\* the fetcher raises a ValueError naming both and the files are what they
\* were before the call; a path is returned only for a file that holds data.
C13_NoDataIsAnError ==
    FetchCalled =>
        /\ fetch_call.nothing =>
              /\ fetch_call.result.status = "ValueError"
              /\ fetch_call.result.ticker \in Tickers
              /\ fetch_call.result.dates \in DateRanges
              /\ fetch_call.result.ret = NoPath
              /\ raw_files = fetch_call.before
        /\ fetch_call.result.status = "ok" =>
              \E f \in raw_files :
                  /\ f.path = fetch_call.result.ret
                  /\ f.content >= 1

\* An empty download after an earlier successful one: refused, files kept.
C13_Witness ==
    /\ fetch_call.op = "fetch_and_save_yfinance"
    /\ fetch_call.nothing
    /\ fetch_call.result.status = "ValueError"
    /\ raw_files # {}

\* ---------------------------------------------- claims on the dashboards
\* C14: concurrent runs work in directories of their own, so that no file
\* path is written or read by two different sessions.
C14_RunsNeverShareAPath ==
    \A a \in accesses, b \in accesses :
        a.path = b.path => a.session = b.session

\* ----------------------------------------------- claims on the predictor
PredCalled == prediction.status # "none"
Declared == model_data.features
DeclaredPresent == {i \in 1..Len(Declared) : HasCol(input_csv, Declared[i])}
DeclaredAbsent == {i \in 1..Len(Declared) : ~HasCol(input_csv, Declared[i])}

\* C15: predict_returns fails, with a ValueError, exactly when none of the
\* declared features is a column of the input; otherwise it returns the
\* input rows with predicted_return, features_used = number of declared
\* features present (>= 1) and features_missing = number absent.
C15_MissingFeatureNotFatal ==
    PredCalled =>
        /\ prediction.status = "ValueError" <=> DeclaredPresent = {}
        /\ prediction.status # "ValueError" =>
              /\ prediction.status = "ok"
              /\ NRows(prediction.df) = NRows(input_csv)
              /\ HasCol(prediction.df, "predicted_return")
              /\ \A i \in 1..NRows(prediction.df) :
                    /\ prediction.df.rows[i]["features_used"]
                          = Int64(Cardinality(DeclaredPresent))
                    /\ prediction.df.rows[i]["features_missing"]
                          = Int64(Cardinality(DeclaredAbsent))
              /\ Cardinality(DeclaredPresent) >= 1

\* C16: load_model turns a bare regressor into the record {model: it,
\* features: [SMA, RSI, EMA], feature_importance: {}} and returns a stored
\* record unchanged; either way predict_returns finds a model and an ordered
\* feature list in it.
C16_LoadModelBothFormats ==
    model_data.type # "none" =>
        /\ model_file.type = "XGBRegressor" =>
              /\ model_data.model = model_file
              /\ model_data.features = <<"SMA", "RSI", "EMA">>
              /\ model_data.feature_importance = EmptyDict
        /\ model_file.type = "dict" => model_data = model_file
        /\ model_data.model.type = "XGBRegressor"
        /\ Len(model_data.features) >= 1
        /\ \A i \in 1..Len(model_data.features) :
              model_data.features[i] \in {"SMA", "RSI", "EMA", "pe_ratio"}

\* An old-format artifact loaded and used for a prediction that succeeded.
C16_Witness ==
    /\ model_file.type = "XGBRegressor"
    /\ model_data.type = "dict"
    /\ prediction.status = "ok"

\* ------------------------------------------------ claims on the stages
StgReturned == stage_call.op # "none" /\ stage_call.status = "ok"
StgOut == heap[stage_call.ret]
StgIn == stage_call.before[1]

\* The column names of a table, the keys of a feature dictionary, in order.
Names(obj) == IF "cols" \in DOMAIN obj THEN obj.cols ELSE obj.keys
NameSet(obj) == {Names(obj)[i] : i \in 1..Len(Names(obj))}

\* out holds what in holds under every name of ns.
Keeps(out, in, ns) ==
    IF "cols" \in DOMAIN in
    THEN /\ NRows(out) = NRows(in)
         /\ \A i \in 1..NRows(in) : \A c \in ns : out.rows[i][c] = in.rows[i][c]
    ELSE \A c \in ns : out.vals[c] = in.vals[c]

\* out starts with the names of in, in the same order.
StartsWith(out, in) ==
    /\ Len(Names(in)) <= Len(Names(out))
    /\ SubSeq(Names(out), 1, Len(Names(in))) = Names(in)

\* Every argument object holds what it held before the call, and the object
\* returned is none of them.
ArgumentsUntouched ==
    /\ \A k \in 1..Len(stage_call.args) :
         heap[stage_call.args[k]] = stage_call.before[k]
    /\ \A k \in 1..Len(stage_call.args) : stage_call.ret # stage_call.args[k]

\* The columns a stage assigns.
OutputNames(op) ==
    CASE op = "add_indicators" -> {"SMA", "RSI", "EMA"}
      [] op = "add_target_return" -> {"target_return"}
      [] op = "apply_label" -> {"predicted_label"}
      [] op = "encode_categorical_features" ->
            {"market_cap_category_encoded", "sector_code_encoded"}
      [] op = "merge_fundamental_with_technical" ->
            NameSet(encode_categorical_features(stage_call.before[2])) \cup {"ticker"}
      [] OTHER ->
            {"daily_return", "volatility_20d", "volatility_60d", "momentum_5d",
             "momentum_20d", "momentum_60d", "volume_sma_20", "volume_ratio",
             "price_vs_sma_20", "price_vs_ema_20", "bb_upper", "bb_middle",
             "bb_lower", "bb_position"}

\* C17 as stated: after a stage returns, its arguments hold exactly what they
\* held before the call, and the table (or dictionary) returned is a new one
\* that extends the input only by adding columns: every input column is
\* still there, in place, with its values.
C17_StagesOnlyAddColumns ==
    StgReturned =>
        /\ ArgumentsUntouched
        /\ StartsWith(StgOut, StgIn)
        /\ Keeps(StgOut, StgIn, NameSet(StgIn))

\* C17, amended: after a stage returns, its arguments hold exactly what they
\* held before the call and the table returned is a new one with the input's
\* rows and the input's columns in place; every input column keeps its values
\* except a column that carries the name of one of the stage's own output
\* columns (a predicted_label already present is rewritten by apply_label).
C17_StagesLeaveArgumentsAlone ==
    StgReturned =>
        /\ ArgumentsUntouched
        /\ StartsWith(StgOut, StgIn)
        /\ Keeps(StgOut, StgIn, NameSet(StgIn) \ OutputNames(stage_call.op))

\* apply_label has relabelled a labelled table with another threshold: the
\* table returned carries a new label in some row, the argument the old one.
C17_Witness ==
    /\ StgReturned
    /\ stage_call.op = "apply_label"
    /\ HasCol(StgIn, "predicted_label")
    /\ heap[stage_call.args[1]] = StgIn
    /\ \E i \in 1..NRows(StgIn) :
         StgOut.rows[i]["predicted_label"] # StgIn.rows[i]["predicted_label"]

\* ---------------------------------------------- claims on the indicators
IndicatorEngine == {"add_indicators", "add_advanced_technical_features"}

\* Every row of column c is missing.
AllMissing(df, c) == \A i \in 1..NRows(df) : IsNA(df.rows[i][c])

\* The columns of the advanced stage that need BBLength bars.
TwentyBarColumns ==
    {"volatility_20d", "momentum_20d", "volume_sma_20", "volume_ratio",
     "bb_upper", "bb_middle", "bb_lower", "bb_position"}

\* C19: add_indicators and add_advanced_technical_features raise no error
\* and return one row per input bar in the input order, for every input
\* length; a column whose window is longer than the input is entirely
\* undefined.
C19_OneRowPerBarNoError ==
    stage_call.op \in IndicatorEngine =>
        /\ stage_call.status = "ok"
        /\ NRows(StgOut) = NRows(StgIn)
        /\ Col(StgOut, "Date") = Col(StgIn, "Date")
        /\ stage_call.op = "add_indicators" =>
             /\ NRows(StgIn) < stage_call.params[1] => AllMissing(StgOut, "SMA")
             /\ NRows(StgIn) < stage_call.params[2] => AllMissing(StgOut, "RSI")
             /\ NRows(StgIn) < stage_call.params[3] => AllMissing(StgOut, "EMA")
        /\ (/\ stage_call.op = "add_advanced_technical_features"
            /\ NRows(StgIn) < BBLength)
             => \A c \in TwentyBarColumns : AllMissing(StgOut, c)

\* The rows of column c that hold a value.
DefinedRows(df, c) == {i \in 1..NRows(df) : ~IsNA(df.rows[i][c])}
Max0(a) == IF a < 0 THEN 0 ELSE a

\* C20: for windows w >= 1 and a series of n defined closes, SMA and EMA have
\* exactly max(0, n - w + 1) defined values and RSI exactly max(0, n - w),
\* the undefined values being the leading rows.
C20_LeadingRowsUndefined ==
    (stage_call.op = "add_indicators" /\ stage_call.status = "ok") =>
        LET n == NRows(StgIn)
            leading(c, k) == DefinedRows(StgOut, c) = {i \in 1..n : i > k}
        IN  /\ leading("SMA", stage_call.params[1] - 1)
            /\ leading("EMA", stage_call.params[3] - 1)
            /\ leading("RSI", stage_call.params[2])
            /\ Cardinality(DefinedRows(StgOut, "SMA")) = Max0(n - stage_call.params[1] + 1)
            /\ Cardinality(DefinedRows(StgOut, "EMA")) = Max0(n - stage_call.params[3] + 1)
            /\ Cardinality(DefinedRows(StgOut, "RSI")) = Max0(n - stage_call.params[2])

\* ------------------------------------- claims on the processed price file
ProcSaved == proc_output.status = "ok"
FeatureSubset == {"SMA", "RSI", "EMA", "target_return"}

\* The table the run had before dropna: the file loaded, with the indicator
\* and target columns.
ProcFeatured ==
    add_target_return(
        add_indicators(load_stock_csv(proc_input), proc_args.window,
                       proc_args.window, proc_args.window),
        proc_args.forward_days)

\* The rows of df with a value in every column of FeatureSubset, in order.
SpecKept(df) ==
    LET keep(r) == \A c \in FeatureSubset : ~IsNA(r[c])
    IN  SelectSeq(df.rows, keep)

Largest(S) == CHOOSE m \in S : \A x \in S : x <= m

\* The first row index (from 0) at which the claim takes SMA, RSI and EMA to
\* be defined: max(sma_w - 1, rsi_w, ema_w - 1).
WarmUp(sma_w, rsi_w, ema_w) == Largest({sma_w - 1, rsi_w, ema_w - 1})

\* The rows of df with index t (from 0), lo <= t < hi, in order.
RowRange(df, lo, hi) ==
    IF hi <= lo THEN <<>> ELSE SubSeq(df.rows, lo + 1, hi)

\* C27: for a series of n rows with every close defined, processed with
\* drop_na=True, the saved rows are exactly the input rows with index t,
\* max(sma_w - 1, rsi_w, ema_w - 1) <= t < n - f, in input order; when no
\* index is in that range the output has no rows and the run still succeeds.
C27_SavedRowsAreTheWindowRange ==
    (proc_output.status # "none" /\ proc_args.drop_na /\ proc_args.dir # "") =>
        LET n == NRows(proc_input)
            lo == WarmUp(proc_args.window, proc_args.window, proc_args.window)
            hi == n - proc_args.forward_days
        IN  /\ ProcSaved
            /\ proc_output.df.rows = RowRange(ProcFeatured, lo, hi)
            /\ hi <= lo => NRows(proc_output.df) = 0

\* ------------------------------------------------ claims on look-ahead
\* The columns the advanced stage derives from past and current bars.
PastOnlyColumns ==
    {"daily_return", "volatility_20d", "volatility_60d", "momentum_5d",
     "momentum_20d", "momentum_60d", "volume_ratio", "price_vs_sma_20",
     "price_vs_ema_20"}

\* The bars of a table: its Date, Close and Volume cells, row by row.
BarsOf(df) ==
    [i \in 1..NRows(df) |-> [c \in {"Date", "Close", "Volume"} |-> df.rows[i][c]]]

\* Two tables hold the same bars in rows 1..t.
AgreeUpTo(a, b, t) ==
    /\ t <= NRows(a)
    /\ t <= NRows(b)
    /\ SubSeq(BarsOf(a), 1, t) = SubSeq(BarsOf(b), 1, t)

\* What create_comprehensive_feature_set computes from a price table.
AdvancedOf(raw) ==
    add_advanced_technical_features(
        add_indicators(raw, DefaultWindow, DefaultWindow, DefaultWindow))

AdvancedReturned ==
    stage_call.op = "add_advanced_technical_features" /\ stage_call.status = "ok"

SectorCalled == sector_call.op = "get_sector_classification"

\* The capital of a character: itself unless it is a lower-case letter.
IsCapitalOf(C, c) ==
    \/ \E i \in 1..Len(LowerCase) : CharAt(LowerCase, i) = c /\ CharAt(UpperCase, i) = C
    \/ (\A i \in 1..Len(LowerCase) : CharAt(LowerCase, i) # c) /\ C = c

\* C22: get_sector_classification never raises for a sector name or a
\* missing sector; for a supplied (non-empty) name the sector_code has the
\* characters of the name up to the third, each as its capital (all of the
\* name when it is shorter than three characters), and for a missing sector
\* (None or '') it is "UNK".
C22_SectorCodeFirstThreeUpper ==
    SectorCalled =>
        LET sector == sector_call.sector
            code == sector_call.ret.sector_code
        IN  /\ sector_call.status = "ok"
            /\ code.k = "str"
            /\ (sector.k = "str" /\ sector.s # "") =>
                 /\ Len(code.s) = (IF Len(sector.s) < 3 THEN Len(sector.s) ELSE 3)
                 /\ \A i \in 1..Len(code.s) :
                      IsCapitalOf(CharAt(code.s, i), CharAt(sector.s, i))
            /\ (sector.k = "none" \/ (sector.k = "str" /\ sector.s = "")) =>
                 code.s = "UNK"

\* The function was called with a name of two characters that holds a
\* lower-case letter, and returned a code of two characters.
C22_Witness ==
    /\ SectorCalled
    /\ sector_call.sector = Str("Ta")
    /\ sector_call.ret.sector_code = Str("TA")

\* --------------------------------------- claims on the sector encoding
\* sector_code_encoded of the features that carry get_sector_classification's
\* sector_code for a sector.
EncodedSector(sector) ==
    encode_categorical_features(
        ODictOf(<< <<"sector_code",
                     get_sector_classification(sector, None).sector_code>> >>)
    ).vals["sector_code_encoded"]

\* C28: each of the eleven sectors of get_sector_classification's mapping,
\* turned into a sector_code by that function, is encoded to a non-zero
\* sector_code_encoded that no other of the eleven sectors is encoded to.
C28_SectorsEncodedDistinctNonZero ==
    (SectorCalled /\ sector_call.sector.k = "str"
                  /\ sector_call.sector.s \in SectorNames) =>
        LET encoded == sector_mapping(sector_call.ret.sector_code)
        IN  /\ encoded = EncodedSector(sector_call.sector)
            /\ encoded # PyInt(0)
            /\ \A other \in SectorNames \ {sector_call.sector.s} :
                 EncodedSector(Str(other)) # encoded

\* ------------------------------------------- claims on the feature set
FsReturned == fs_output.status = "ok"

TechnicalNames ==
    {"SMA", "RSI", "EMA", "daily_return", "volatility_20d", "volatility_60d",
     "momentum_5d", "momentum_20d", "momentum_60d", "volume_ratio",
     "price_vs_sma_20", "price_vs_ema_20", "bb_position"}
RatioNames ==
    {"pe_ratio", "pb_ratio", "debt_to_equity", "current_ratio", "roe", "roa",
     "revenue_growth_yoy", "earnings_growth_yoy", "market_cap", "enterprise_value"}
EncodedNames == {"market_cap_category_encoded", "sector_code_encoded"}
PriceNames == {"Open", "High", "Low", "Close", "Volume"}
CategoricalNames == {"market_cap_category", "sector_classified", "sector_code"}

\* A cell of a numeric column: a number or a missing number.
IsNumericCell(x) == x.k \in {"num", "nan", "pinf", "ninf", "pyint", "int64", "surd"}

\* The snapshot the call loaded.
FsSnapshot == load_fundamental_ratios("AAPL", fs_upstream, EmptyDir).frame

CsvFetched == csv_call.op # "none" /\ csv_call.status = "ok"

\* The file at the path the last fetch returned.
CsvFile == (CHOOSE f \in csv_files : f.path = csv_call.ret).content

ProducerFor(stage, path) ==
    CASE stage = "features" -> "fetch"
      [] stage = "train" -> "features"
      [] stage = "predict" /\ path = pipe_args.model_path -> "train"
      [] stage = "predict" -> "features"
      [] OTHER -> "predict"

\* C25: in run_pipeline every file a stage opens is there and was written by
\* an earlier stage of the same run: the price CSV the feature step reads is
\* the one the fetch step wrote, the model the predict step loads is the one
\* the train step saved, the prediction CSV the backtest reads is the one the
\* predict step wrote.
C25_StagesReadWhatTheRunWrote ==
    \A k \in 1..Len(pipe_run.reads) :
        LET e == pipe_run.reads[k]
        IN  /\ e.found
            /\ e.by = ProducerFor(e.stage, e.path)

\* ------------------------------------------ claims on the monthly retrain
RetrainOver == retrain.status \notin {"none", "running"}

\* C30: when run_monthly_retrain is over it has called run_pipeline once for
\* each pair of consecutive month starts in [start, end], in chronological
\* order, with the window from the month start to the day before the next
\* month start; the windows are pairwise disjoint, the model paths and the
\* result directories of the calls are pairwise different and no two calls
\* wrote the same path.
C30_OneRunPerMonth ==
    RetrainOver =>
        LET calls == retrain.calls
            firsts == {d \in retrain.start..retrain.end :
                         \E m \in 1..MaxMonths : d = MonthStart(m)}
            pairs == {d \in firsts : \E e \in firsts : e > d}
        IN  /\ Len(calls) = Cardinality(pairs)
            /\ \A k \in 1..Len(calls) :
                 /\ calls[k].args.dates.start \in pairs
                 /\ calls[k].args.dates.end + 1 \in firsts
                 /\ \A d \in firsts :
                      ~(calls[k].args.dates.start < d /\ d <= calls[k].args.dates.end)
            /\ \A j \in 1..Len(calls), k \in 1..Len(calls) :
                 j < k =>
                    /\ calls[j].args.dates.end < calls[k].args.dates.start
                    /\ calls[j].args.model_path # calls[k].args.model_path
                    /\ calls[j].args.results_dir # calls[k].args.results_dir
                    /\ calls[j].wrote \cap calls[k].wrote = {}

\* ------------------------------------------------- claims on the badge
BadgeShown == badge.op = "display_prediction_results"

\* C29: for every predicted return and every threshold of the slider the
\* badge text and the badge colour agree, the badge is BUY exactly when
\* apply_label with the same threshold gave label 1, and SELL is shown only
\* when the predicted return is at most -threshold and the label is 0.
C29_BadgeAgreesWithLabel ==
    BadgeShown =>
        /\ <<badge.text, badge.color>> \in
              {<<"BUY", "buy">>, <<"SELL", "sell">>, <<"HOLD", "hold">>}
        /\ (badge.text = "BUY") = (badge.label = One)
        /\ badge.label \in {Zero, One}
        /\ badge.text = "SELL" =>
             /\ ~IsNaN(badge.predicted_return)
             /\ ~Gt(badge.predicted_return, Neg(badge.threshold))
             /\ badge.label = Zero

\* Under a negative threshold a return between the threshold and its
\* negative was shown as BUY.
C29_Witness ==
    /\ BadgeShown
    /\ Lt(badge.threshold, Zero)
    /\ Lt(badge.predicted_return, Zero)
    /\ Gt(badge.predicted_return, badge.threshold)
    /\ badge.text = "BUY"

\* ------------------------------------------- claims on the session state
\* The script run is over: the page shows the export section.
SessionIdle == analysis_pc = "idle"

\* C26: after any sequence of Run Analysis and Clear Results actions, when the
\* session state holds both 'analysis_results' and 'export_data', the two
\* come from the same analysis run: the same ticker and the same prediction
\* table.
C26_ResultsAndExportOfOneRun ==
    (/\ SessionIdle
     /\ session_state.analysis_results.present
     /\ session_state.export_data.present)
        => /\ session_state.analysis_results.run = session_state.export_data.run
           /\ session_state.analysis_results.ticker
                = session_state.export_data.ticker

\* ------------------------------------------------------- specifications
vars == <<pred_csv, initial_cash, results, df_pred, label_in, label_call,
          price_df, forward_days, target_df, fund_files, fund_call,
          ratios_df, technical_df, combined_df, fundamental_data, key_ratios,
          raw_files, fetch_call, session, dash_files, accesses, fresh,
          model_file, model_data, input_csv, prediction,
          heap, stage_call, proc_input, proc_args, proc_output,
          sector_call, fs_file, fs_upstream, fs_output,
          csv_files, csv_call,
          pipe_args, pipe_env, pipe_run, pipe_pc,
          retrain, retrain_files, badge,
          session_state, run_count, analysis_run, analysis_pc>>

\* The state of the components modelled after the features.py run.
extVars == <<secVars, fsVars, csvVars, pipeVars, retrainVars, badgeVars, sessVars>>

\* The state of the components up to the features.py run.
coreVars ==
    <<btVars, lblVars, tgtVars, fundVars, mrgVars, ratVars, fetchVars, dashVars,
      predVars, stgVars, procVars>>

Init == BtInit /\ LblInit /\ TgtInit /\ FundInit /\ MrgInit /\ RatInit /\ FetchInit
        /\ DashInit /\ PredInit /\ StgInit /\ ProcInit /\ SecInit /\ FsInit /\ CsvInit /\ PipeInit /\ RetrainInit /\ BadgeInit /\ SessInit

\* A run of backtest.py.
NextBacktest == BacktestStrategy /\ UNCHANGED <<lblVars, tgtVars, fundVars, mrgVars, ratVars, fetchVars, dashVars, predVars, stgVars, procVars, extVars>>

SpecBacktest == Init /\ [][NextBacktest]_vars

\* A run that reads a table and labels it (predictor.py, train_model.py).
NextLabel ==
    \/ ReadFrame /\ UNCHANGED <<btVars, tgtVars, fundVars, mrgVars, ratVars, fetchVars, dashVars, predVars, stgVars, procVars, extVars>>
    \/ ApplyLabel /\ UNCHANGED <<btVars, tgtVars, fundVars, mrgVars, ratVars, fetchVars, dashVars, predVars, stgVars, procVars, extVars>>
    \/ ApplyClassificationThresholds /\ UNCHANGED <<btVars, tgtVars, fundVars, mrgVars, ratVars, fetchVars, dashVars, predVars, stgVars, procVars, extVars>>

SpecLabel == Init /\ [][NextLabel]_vars

\* The target step of features.py.
NextTarget == AddTargetReturn /\ UNCHANGED <<btVars, lblVars, fundVars, mrgVars, ratVars, fetchVars, dashVars, predVars, stgVars, procVars, extVars>>

SpecTarget == Init /\ [][NextTarget]_vars

\* The fundamentals directory of a ticker: fetches and loads in any order.
NextFund ==
    \/ FetchAndSaveFundamentals /\ UNCHANGED <<btVars, lblVars, tgtVars, mrgVars, ratVars, fetchVars, dashVars, predVars, stgVars, procVars, extVars>>
    \/ LoadFundamentalRatios /\ UNCHANGED <<btVars, lblVars, tgtVars, mrgVars, ratVars, fetchVars, dashVars, predVars, stgVars, procVars, extVars>>

SpecFund == Init /\ [][NextFund]_vars

\* The merge of one ticker's snapshot into a technical table.
NextMerge ==
    MergeFundamentalWithTechnical
        /\ UNCHANGED <<btVars, lblVars, tgtVars, fundVars, ratVars, fetchVars, dashVars, predVars, stgVars, procVars, extVars>>

SpecMerge == Init /\ [][NextMerge]_vars

\* The extraction of the ratios from one set of statements.
NextRatios ==
    ExtractKeyRatios
        /\ UNCHANGED <<btVars, lblVars, tgtVars, fundVars, mrgVars, fetchVars, dashVars, predVars, stgVars, procVars, extVars>>

SpecRatios == Init /\ [][NextRatios]_vars

\* Price downloads into one directory, in any order.
NextFetch ==
    \/ FetchAndSaveYfinance
          /\ UNCHANGED <<btVars, lblVars, tgtVars, fundVars, mrgVars, ratVars, dashVars, predVars, stgVars, procVars, extVars>>
    \/ FetchAndSaveFinnhub
          /\ UNCHANGED <<btVars, lblVars, tgtVars, fundVars, mrgVars, ratVars, dashVars, predVars, stgVars, procVars, extVars>>

SpecFetch == Init /\ [][NextFetch]_vars

\* Dashboard sessions interleaved at their file operations.
nonDashVars ==
    <<btVars, lblVars, tgtVars, fundVars, mrgVars, ratVars, fetchVars, predVars, stgVars, procVars, extVars>>

NextDash ==
    \E s \in Sessions :
        \/ StartRun(s) /\ UNCHANGED nonDashVars
        \/ FetchPrices(s) /\ UNCHANGED nonDashVars
        \/ FetchFundamentals(s) /\ UNCHANGED nonDashVars
        \/ CreateFeatures(s) /\ UNCHANGED nonDashVars
        \/ Predict(s) /\ UNCHANGED nonDashVars

SpecDash == Init /\ [][NextDash]_vars

\* predictor.py: load the artifact, then predict on a feature table.
nonPredVars ==
    <<btVars, lblVars, tgtVars, fundVars, mrgVars, ratVars, fetchVars, dashVars,
      stgVars, procVars, extVars>>

NextPredict ==
    \/ LoadModel /\ UNCHANGED nonPredVars
    \/ PredictReturns /\ UNCHANGED nonPredVars

SpecPredict == Init /\ [][NextPredict]_vars

\* One call of a feature-engineering stage on freshly built arguments.
nonStgVars ==
    <<btVars, lblVars, tgtVars, fundVars, mrgVars, ratVars, fetchVars, dashVars,
      predVars, procVars, extVars>>

NextStage ==
    \/ AddIndicators /\ UNCHANGED nonStgVars
    \/ AddTargetReturnStage /\ UNCHANGED nonStgVars
    \/ AddAdvancedTechnicalFeatures /\ UNCHANGED nonStgVars
    \/ EncodeCategoricalFeatures /\ UNCHANGED nonStgVars
    \/ MergeStage /\ UNCHANGED nonStgVars
    \/ ApplyLabelStage /\ UNCHANGED nonStgVars

SpecStage == Init /\ [][NextStage]_vars

\* One run of features.py on a price file.
NextProcess ==
    ProcessAndSaveWithIndicators
        /\ UNCHANGED <<btVars, lblVars, tgtVars, fundVars, mrgVars, ratVars,
                       fetchVars, dashVars, predVars, stgVars, extVars>>

SpecProcess == Init /\ [][NextProcess]_vars

\* One call of get_sector_classification.
nonSectorVars == <<coreVars, fsVars, csvVars, pipeVars, retrainVars, badgeVars, sessVars>>

NextSector ==
    \/ GetSectorClassification /\ UNCHANGED nonSectorVars

SpecSector == Init /\ [][NextSector]_vars

\* One call of create_comprehensive_feature_set.
nonFeatureSetVars == <<coreVars, secVars, csvVars, pipeVars, retrainVars, badgeVars, sessVars>>

NextFeatureSet ==
    \/ CreateComprehensiveFeatureSet /\ UNCHANGED nonFeatureSetVars

SpecFeatureSet == Init /\ [][NextFeatureSet]_vars

\* Price downloads with the files they write.
nonCsvVars == <<coreVars, secVars, fsVars, pipeVars, retrainVars, badgeVars, sessVars>>

NextCsv ==
    \/ FetchYfinanceCsv /\ UNCHANGED nonCsvVars
    \/ FetchFinnhubCsv /\ UNCHANGED nonCsvVars

SpecCsv == Init /\ [][NextCsv]_vars

\* One run of run_pipeline, stage by stage.
nonPipelineVars == <<coreVars, secVars, fsVars, csvVars, retrainVars, badgeVars, sessVars>>

NextPipeline ==
    \/ PipelineStart /\ UNCHANGED nonPipelineVars
    \/ PipelineFetch /\ UNCHANGED nonPipelineVars
    \/ PipelineFundamentals /\ UNCHANGED nonPipelineVars
    \/ PipelineFeatures /\ UNCHANGED nonPipelineVars
    \/ PipelineTrain /\ UNCHANGED nonPipelineVars
    \/ PipelinePredict /\ UNCHANGED nonPipelineVars
    \/ PipelineBacktest /\ UNCHANGED nonPipelineVars

SpecPipeline == Init /\ [][NextPipeline]_vars

\* One call of run_monthly_retrain, month by month.
nonRetrainVars == <<coreVars, secVars, fsVars, csvVars, pipeVars, badgeVars, sessVars>>

NextRetrain ==
    \/ RunMonthlyRetrain /\ UNCHANGED nonRetrainVars
    \/ RetrainMonth /\ UNCHANGED nonRetrainVars
    \/ RetrainReturn /\ UNCHANGED nonRetrainVars

SpecRetrain == Init /\ [][NextRetrain]_vars

\* One prediction badge.
nonBadgeVars == <<coreVars, secVars, fsVars, csvVars, pipeVars, retrainVars, sessVars>>

NextBadge ==
    \/ DisplayPredictionResults /\ UNCHANGED nonBadgeVars

SpecBadge == Init /\ [][NextBadge]_vars

\* One session of the enhanced dashboard: runs and clears in any order.
nonSessionVars == <<coreVars, secVars, fsVars, csvVars, pipeVars, retrainVars, badgeVars>>

NextSession ==
    \/ RunAnalysis /\ UNCHANGED nonSessionVars
    \/ PrepareAnalysis /\ UNCHANGED nonSessionVars
    \/ StoreAnalysisResults /\ UNCHANGED nonSessionVars
    \/ DisplayResults /\ UNCHANGED nonSessionVars
    \/ StoreExportData /\ UNCHANGED nonSessionVars
    \/ ClearResults /\ UNCHANGED nonSessionVars

SpecSession == Init /\ [][NextSession]_vars

==========================================================================
